---- MODULE Spec2Model ----
(***************************************************************************)
(* LeverageGuard (revision 2, contracts/leverageguard/LeverageGuardV2.sol) *)
(* as a state machine.  One action per external function.  Every function  *)
(* has an operator <Name>Revert giving the reason of the first require     *)
(* that fails in the current state ("ok" when none does); a reverting call *)
(* leaves every variable as it was.  executePayout and withdraw hand       *)
(* control to the recipient in the middle of their body (a low-level call  *)
(* with value): they are split at that call, and the recipient may call    *)
(* any function of the contract while the call is in flight.               *)
(***************************************************************************)
EXTENDS Integers, Sequences, FiniteSets, TLC

\* ------------------------------------------------------------------ bounds
MaxBalance == 30    \* funding stops when the ledger would exceed it
MaxTime == 1        \* block.timestamp runs over 0..MaxTime
MaxNested == 1      \* successful calls by the recipient during one transfer
MaxAmount == 45     \* a verification that would record more is not taken
MaxPending == 2     \* provider requests, and timers, pending at one time

\* ---------------------------------------------------------- input domains
ZeroAddress == 0
Deployer == 1
Address == 0..5
InitialWallets == <<2, 3, 5>>
OrderIds == {1, 2}
Principals == {0, 1000}
Leverages == {80, 90}
InsuranceRates == {0, 50, 101}
VerifyRates == {50, 100}
Thresholds == {0, 85, 100}
Fees == {0, 6}
FundAmounts == {30}
WithdrawAmounts == {24, 61}

OK == "ok"
NoFrame == [op |-> "none"]

VARIABLES
    owner, liquidationThreshold, feePercentage,
    whitelistedUsers, blacklistedUsers,
    contractBalance, locked, paused,
    multiSigWallets, minSignatures,
    userPayouts, claimedOrders,
    balance,     \* address(this).balance
    events,      \* events of the transaction in progress, or of the last one
                 \* that was not reverted
    now,         \* block.timestamp
    frame,       \* the external call in flight, or NoFrame
    last,        \* the last call that was not reverted on the spot, and
                 \* where it stands: "returned", "in flight" or "reverted"
    paid,        \* (user, orderId) pairs a completed executePayout has paid
    wallet       \* the WalletConnectButton of the customer web page

storage == <<owner, liquidationThreshold, feePercentage, whitelistedUsers,
             blacklistedUsers, contractBalance, locked, paused, multiSigWallets,
             minSignatures, userPayouts, claimedOrders, balance>>
contract == <<storage, events, now, frame, last, paid>>
vars == <<contract, wallet>>

Snapshot ==
    [owner |-> owner, liquidationThreshold |-> liquidationThreshold,
     feePercentage |-> feePercentage, whitelistedUsers |-> whitelistedUsers,
     blacklistedUsers |-> blacklistedUsers, contractBalance |-> contractBalance,
     locked |-> locked, paused |-> paused, multiSigWallets |-> multiSigWallets,
     minSignatures |-> minSignatures, userPayouts |-> userPayouts,
     claimedOrders |-> claimedOrders, balance |-> balance]

\* ---------------------------------------------------------------- helpers
InFlight == frame # NoFrame

\* The first revert reason of a list of checks, OK when every check passes.
RECURSIVE First(_)
First(checks) ==
    IF checks = <<>> THEN OK
    ELSE IF Head(checks) # OK THEN Head(checks)
    ELSE First(Tail(checks))

Require(cond, reason) == IF cond THEN OK ELSE reason

Records(u) == userPayouts[u].records

\* ----------------------------------------------------------------- queries
isOrderClaimed(u, o) == <<u, o>> \in claimedOrders
\* The copy loop stopping one record short.
getUserPayoutsShort(u) ==
    [i \in 1..(IF Len(Records(u)) > 0 THEN Len(Records(u)) - 1 ELSE 0) |->
        Records(u)[i]]
getUserPayouts(u) == [i \in 1..Len(Records(u)) |-> Records(u)[i]]
verifyBalance == contractBalance = balance
getContractBalance == balance
getMultiSigWalletCount == Len(multiSigWallets)

\* --------------------------------------------------------------- modifiers
\* onlyOwner with its require dropped.
onlyOwnerOff(sender) == OK
onlyOwner(sender) == Require(sender = owner, "Not owner")

\* onlyMultiSig accepting a lone member only under a quorum of one.
onlyMultiSigQuorum(sender) ==
    Require(/\ \E i \in 1..Len(multiSigWallets) : multiSigWallets[i] = sender
            /\ minSignatures <= 1,
            "Not multi-sig wallet")

onlyMultiSig(sender) ==
    Require(\E i \in 1..Len(multiSigWallets) : multiSigWallets[i] = sender,
            "Not multi-sig wallet")

\* whitelistedOnly without its require on the blacklist.
whitelistedOnlyIgnoringBlacklist(sender) ==
    Require(sender \in whitelistedUsers, "User not whitelisted")

whitelistedOnly(sender) ==
    First(<<Require(sender \in whitelistedUsers, "User not whitelisted"),
            Require(sender \notin blacklistedUsers, "User is blacklisted")>>)

\* noReentrant with its require dropped.
noReentrantOff == OK
noReentrant == Require(~locked, "Reentrant call")

\* whenNotPaused with its require dropped.
whenNotPausedOff == OK
whenNotPaused == Require(~paused, "Contract paused")

\* ------------------------------------------------------- outcome of a call
\* A revert that undoes the writes of the body but not the lock the modifier
\* took.
RevertedLockHeld ==
    /\ locked' = TRUE
    /\ UNCHANGED <<owner, liquidationThreshold, feePercentage, whitelistedUsers,
                   blacklistedUsers, contractBalance, paused, multiSigWallets,
                   minSignatures, userPayouts, claimedOrders, balance, events, now,
                   frame, last, paid, wallet>>
\* A require fails: the call reverts and nothing is written, no event is kept.
Reverted == UNCHANGED vars

\* While a transfer is in flight the calls come from its recipient, and the
\* successful ones are counted against MaxNested.
MayCall(sender) == InFlight => (sender = frame.to /\ frame.nested < MaxNested)

\* A top-level call opens a new transaction log; a nested one appends to it.
Emit(evs) == events' = IF InFlight THEN events \o evs ELSE evs

Returned(op) ==
    /\ last' = [op |-> op, status |-> "returned"]
    /\ frame' = IF InFlight THEN [frame EXCEPT !.nested = @ + 1] ELSE frame
    /\ UNCHANGED <<now, paid, wallet>>

\* ---------------------------------------------------------- pure functions
\* The estimate divided as a percentage of a percentage is not.
EstimatedPayoutPercent(principal, insuranceRate, leverage, threshold) ==
    (principal * insuranceRate * (leverage - threshold)) \div 100
\* submitClaim's estimate, with Solidity's truncating division.
EstimatedPayout(principal, insuranceRate, leverage, threshold) ==
    (principal * insuranceRate * (leverage - threshold)) \div 10000

\* The recomputation rounding up.
VerifiedAmountCeiling(amount, insuranceRate) == (amount * insuranceRate + 99) \div 100
\* updateVerification's recomputation of the recorded amount.
VerifiedAmount(amount, insuranceRate) == (amount * insuranceRate) \div 100

\* executePayout's fee and net transfer.
\* The fee taken as a per-mille rate.
FeePerMille(payoutCap, feePct) == (payoutCap * feePct) \div 1000
Fee(payoutCap, feePct) == (payoutCap * feePct) \div 100
NetPayout(payoutCap, feePct) == payoutCap - Fee(payoutCap, feePct)

\* The 0-based index orderIdToIndex holds for (u, o), and the record it names.
IndexOf(u, o) == userPayouts[u].orderIdToIndex[o]
RecordAt(u, index) == Records(u)[index + 1]

\* ------------------------------------------------------ WalletConnectButton
\* The button group of the customer web page (WalletConnectButton.ts).  The
\* variable wallet holds the fields of the object and what is pending around
\* it: state (status, address, chainId, error), the disabled flags of the two
\* buttons, the texts of the Sign button and of the helper line, the provider
\* requests that have not returned (pending: the eth_requestAccounts and the
\* ensureBaseNetwork of each connect() and the ensureBaseNetwork of a click
\* while connected; signs: personal_sign requests), the timers set by
\* setTimeout, and wrongChain, which records that the last chainChanged
\* reported a chain other than Base and no connection was made since.
BaseChain == "0x2105"
Chains == {BaseChain, "0x1"}
NoAddress == "none"
AccountLists == {<<>>, <<"0xA">>, <<"0xB">>}

WalletState(status, address, chainId, error) ==
    [status |-> status, address |-> address, chainId |-> chainId, error |-> error]

\* render(): the buttons and the helper line follow state.status.
render(w) ==
    IF ~w.provider
    THEN [w EXCEPT !.state = WalletState("disconnected", NoAddress, "none",
                                         "missing-provider"),
                   !.connectDisabled = FALSE,
                   !.signDisabled = TRUE,
                   !.helperText = "MetaMask is required to continue"]
    ELSE IF w.state.status = "connecting"
    THEN [w EXCEPT !.connectDisabled = TRUE,
                   !.signDisabled = TRUE,
                   !.helperText = "Please approve the request in MetaMask"]
    ELSE IF w.state.status = "connected"
    THEN [w EXCEPT !.connectDisabled = FALSE,
                   !.signDisabled = FALSE,
                   !.helperText = "Network: Base Mainnet"]
    ELSE [w EXCEPT !.connectDisabled = FALSE,
                   !.signDisabled = TRUE,
                   !.helperText = "Base Mainnet required"]

\* The object after its constructor, with a provider in the window.
WalletConstructed ==
    render([provider |-> TRUE,
            state |-> WalletState("disconnected", NoAddress, "none", "none"),
            connectDisabled |-> FALSE,
            signDisabled |-> TRUE,
            signText |-> "Sign Login",
            helperText |-> "",
            pending |-> <<>>,
            signs |-> 0,
            timers |-> 0,
            wrongChain |-> FALSE])

Remove(seq, i) == [j \in 1..(Len(seq) - 1) |-> IF j < i THEN seq[j] ELSE seq[j + 1]]

\* A click on the Connect button, which a disabled button does not deliver.
handleConnectClick ==
    /\ ~wallet.connectDisabled
    /\ Len(wallet.pending) < MaxPending
    /\ wallet' =
          IF ~wallet.provider THEN wallet
          ELSE IF wallet.state.status = "connected"
          THEN [wallet EXCEPT !.pending =
                    Append(@, [kind |-> "ensure", stage |-> "network",
                               primary |-> NoAddress])]
          ELSE render([wallet EXCEPT
                    !.state = WalletState("connecting", NoAddress, "none", "none"),
                    !.pending = Append(@, [kind |-> "connect", stage |-> "accounts",
                                           primary |-> NoAddress])])
    /\ UNCHANGED contract

\* connect() after its catch: disconnected with the error, and render().
connectFailed(w) ==
    render([w EXCEPT !.state = WalletState("disconnected", NoAddress, "none", "error")])

\* eth_requestAccounts of the i-th pending connect() returns: with accounts,
\* with none (connect() throws) or rejected.
requestAccountsReturns(i, accounts, rejected) ==
    /\ i \in 1..Len(wallet.pending)
    /\ wallet.pending[i].stage = "accounts"
    /\ wallet' =
          IF rejected \/ accounts = <<>>
          THEN connectFailed([wallet EXCEPT !.pending = Remove(@, i)])
          ELSE [wallet EXCEPT !.pending[i].stage = "network",
                              !.pending[i].primary = accounts[1]]
    /\ UNCHANGED contract

\* ensureBaseNetwork() of the i-th pending call returns or throws.  Inside
\* connect() its return makes the connection; after a click while connected
\* nothing waits for it.
ensureBaseNetworkReturns(i, thrown) ==
    /\ i \in 1..Len(wallet.pending)
    /\ wallet.pending[i].stage = "network"
    /\ LET p == wallet.pending[i]
           w == [wallet EXCEPT !.pending = Remove(@, i)] IN
       wallet' =
          IF thrown
          THEN IF p.kind = "connect"
               THEN connectFailed([w EXCEPT !.helperText = "error"])
               ELSE [w EXCEPT !.helperText = "error"]
          ELSE IF p.kind = "connect"
               THEN render([w EXCEPT
                        !.state = WalletState("connected", p.primary, BaseChain, "none"),
                        !.wrongChain = FALSE])
               ELSE w
    /\ UNCHANGED contract

\* A click on the Sign button, which a disabled button does not deliver.
handleSignClick ==
    /\ ~wallet.signDisabled
    /\ wallet.signs < MaxPending
    /\ wallet' =
          IF ~wallet.provider \/ wallet.state.status # "connected"
             \/ wallet.state.address = NoAddress
          THEN wallet
          ELSE [wallet EXCEPT !.signs = @ + 1]
    /\ UNCHANGED contract

\* personal_sign returns a signature, or is rejected.
personalSignReturns(rejected) ==
    /\ wallet.signs > 0
    /\ rejected \/ wallet.timers < MaxPending
    /\ wallet' =
          IF rejected
          THEN [wallet EXCEPT !.signs = @ - 1, !.helperText = "error"]
          ELSE [wallet EXCEPT !.signs = @ - 1,
                              !.signText = "Signed",
                              !.signDisabled = TRUE,
                              !.timers = @ + 1]
    /\ UNCHANGED contract

\* The callback given to setTimeout(..., 1600) runs.
signTimerFires ==
    /\ wallet.timers > 0
    /\ wallet' = [wallet EXCEPT !.timers = @ - 1,
                                !.signText = "Sign Login",
                                !.signDisabled = FALSE]
    /\ UNCHANGED contract

handleAccountsChanged(accounts) ==
    /\ wallet.provider
    /\ wallet' =
          render(IF accounts = <<>>
                 THEN [wallet EXCEPT
                          !.state = WalletState("disconnected", NoAddress, "none", "none"),
                          !.signDisabled = TRUE]
                 ELSE [wallet EXCEPT
                          !.state = WalletState("connected", accounts[1], BaseChain, "none"),
                          !.signDisabled = FALSE,
                          !.wrongChain = FALSE])
    /\ UNCHANGED contract

handleChainChanged(chainId) ==
    /\ wallet.provider
    /\ wallet' =
          render(IF chainId # BaseChain
                 THEN [wallet EXCEPT !.helperText = "Wrong network - switch to Base",
                                     !.signDisabled = TRUE,
                                     !.wrongChain = TRUE]
                 ELSE IF wallet.state.address # NoAddress
                 THEN [wallet EXCEPT
                          !.state = WalletState("connected", wallet.state.address,
                                                chainId, "none"),
                          !.signDisabled = FALSE,
                          !.helperText = "Network: Base Mainnet",
                          !.wrongChain = FALSE]
                 ELSE [wallet EXCEPT !.wrongChain = FALSE])
    /\ UNCHANGED contract

\* -------------------------------------------------------------------- Init
Init ==
    /\ owner = Deployer
    /\ liquidationThreshold = 80
    /\ feePercentage = 5
    /\ whitelistedUsers = {}
    /\ blacklistedUsers = {}
    /\ contractBalance = 0
    /\ locked = FALSE
    /\ paused = FALSE
    /\ multiSigWallets = InitialWallets
    /\ minSignatures = 3
    /\ userPayouts = [u \in Address |->
                        [records |-> <<>>, orderIdToIndex |-> [o \in OrderIds |-> 0]]]
    /\ claimedOrders = {}
    /\ balance = 0
    /\ events = <<>>
    /\ now = 0
    /\ frame = NoFrame
    /\ last = [op |-> "constructor", status |-> "returned"]
    /\ paid = {}
    /\ wallet = WalletConstructed

\* ------------------------------------------------------------ pause/unpause
Pause(sender) ==
    /\ MayCall(sender)
    /\ LET err == onlyOwner(sender) IN
       IF err # OK THEN Reverted
       ELSE /\ paused' = TRUE
            /\ Emit(<<[name |-> "ContractPaused", admin |-> sender]>>)
            /\ Returned("pause")
            /\ UNCHANGED <<owner, liquidationThreshold, feePercentage, whitelistedUsers,
                           blacklistedUsers, contractBalance, locked, multiSigWallets,
                           minSignatures, userPayouts, claimedOrders, balance>>

Unpause(sender) ==
    /\ MayCall(sender)
    /\ LET err == onlyOwner(sender) IN
       IF err # OK THEN Reverted
       ELSE /\ paused' = FALSE
            /\ Emit(<<[name |-> "ContractUnpaused", admin |-> sender]>>)
            /\ Returned("unpause")
            /\ UNCHANGED <<owner, liquidationThreshold, feePercentage, whitelistedUsers,
                           blacklistedUsers, contractBalance, locked, multiSigWallets,
                           minSignatures, userPayouts, claimedOrders, balance>>

\* Funds that reach the contract's ether without being entered in the ledger.
AddFundsUnrecorded(sender, value) ==
    /\ MayCall(sender)
    /\ LET err == onlyOwner(sender) IN
       IF err # OK THEN Reverted
       ELSE /\ balance + value <= MaxBalance
            /\ balance' = balance + value
            /\ Emit(<<[name |-> "FundsAdded", owner |-> sender, amount |-> value]>>)
            /\ Returned("addFunds")
            /\ UNCHANGED <<owner, liquidationThreshold, feePercentage, whitelistedUsers,
                           blacklistedUsers, contractBalance, locked, paused,
                           multiSigWallets, minSignatures, userPayouts,
                           claimedOrders>>

\* ----------------------------------------------------------------- funding
\* addFunds is payable: msg.value reaches address(this).balance with the call.
AddFunds(sender, value) ==
    /\ MayCall(sender)
    /\ LET err == onlyOwner(sender) IN
       IF err # OK THEN Reverted
       ELSE /\ contractBalance + value <= MaxBalance
            /\ contractBalance' = contractBalance + value
            /\ balance' = balance + value
            /\ Emit(<<[name |-> "FundsAdded", owner |-> sender, amount |-> value]>>)
            /\ Returned("addFunds")
            /\ UNCHANGED <<owner, liquidationThreshold, feePercentage, whitelistedUsers,
                           blacklistedUsers, locked, paused, multiSigWallets,
                           minSignatures, userPayouts, claimedOrders>>

\* receive(): a plain transfer of value to the contract.
\* receive() taking the ether without recording it.
ReceiveUnrecorded(sender, value) ==
    /\ MayCall(sender)
    /\ LET err == whenNotPaused IN
       IF err # OK THEN Reverted
       ELSE /\ balance + value <= MaxBalance
            /\ balance' = balance + value
            /\ Emit(<<>>)
            /\ Returned("receive")
            /\ UNCHANGED <<owner, liquidationThreshold, feePercentage, whitelistedUsers,
                           blacklistedUsers, contractBalance, locked, paused,
                           multiSigWallets, minSignatures, userPayouts, claimedOrders>>

\* receive() without whenNotPaused.
ReceiveWhilePaused(sender, value) ==
    /\ MayCall(sender)
    /\ contractBalance + value <= MaxBalance
    /\ contractBalance' = contractBalance + value
    /\ balance' = balance + value
    /\ Emit(<<>>)
    /\ Returned("receive")
    /\ UNCHANGED <<owner, liquidationThreshold, feePercentage, whitelistedUsers,
                   blacklistedUsers, locked, paused, multiSigWallets,
                   minSignatures, userPayouts, claimedOrders>>

Receive(sender, value) ==
    /\ MayCall(sender)
    /\ LET err == whenNotPaused IN
       IF err # OK THEN Reverted
       ELSE /\ contractBalance + value <= MaxBalance
            /\ contractBalance' = contractBalance + value
            /\ balance' = balance + value
            /\ Emit(<<>>)
            /\ Returned("receive")
            /\ UNCHANGED <<owner, liquidationThreshold, feePercentage, whitelistedUsers,
                           blacklistedUsers, locked, paused, multiSigWallets,
                           minSignatures, userPayouts, claimedOrders>>

SyncBalance(sender) ==
    /\ MayCall(sender)
    /\ LET err == onlyOwner(sender) IN
       IF err # OK THEN Reverted
       ELSE /\ contractBalance' = balance
            /\ Emit(<<[name |-> "BalanceSynced", newBalance |-> balance]>>)
            /\ Returned("syncBalance")
            /\ UNCHANGED <<owner, liquidationThreshold, feePercentage, whitelistedUsers,
                           blacklistedUsers, locked, paused, multiSigWallets,
                           minSignatures, userPayouts, claimedOrders, balance>>

\* Ether that reaches the contract without running its code (the beneficiary
\* of a selfdestruct or of a block reward): address(this).balance grows and
\* contractBalance does not, which is what verifyBalance and syncBalance are
\* there for.
ForcedTransfer(value) ==
    /\ ~InFlight
    /\ balance + value <= MaxBalance
    /\ balance' = balance + value
    /\ UNCHANGED <<owner, liquidationThreshold, feePercentage, whitelistedUsers,
                   blacklistedUsers, contractBalance, locked, paused, multiSigWallets,
                   minSignatures, userPayouts, claimedOrders, events, now, frame,
                   last, paid, wallet>>

\* ------------------------------------------------------ whitelist/blacklist
AddToWhitelistRevert(sender, user) ==
    First(<<onlyOwner(sender), Require(user # ZeroAddress, "Invalid address")>>)

AddToWhitelist(sender, user) ==
    /\ MayCall(sender)
    /\ LET err == AddToWhitelistRevert(sender, user) IN
       IF err # OK THEN Reverted
       ELSE /\ whitelistedUsers' = whitelistedUsers \cup {user}
            /\ Emit(<<[name |-> "UserWhitelisted", user |-> user]>>)
            /\ Returned("addToWhitelist")
            /\ UNCHANGED <<owner, liquidationThreshold, feePercentage, blacklistedUsers,
                           contractBalance, locked, paused, multiSigWallets,
                           minSignatures, userPayouts, claimedOrders, balance>>

RemoveFromWhitelist(sender, user) ==
    /\ MayCall(sender)
    /\ LET err == onlyOwner(sender) IN
       IF err # OK THEN Reverted
       ELSE /\ whitelistedUsers' = whitelistedUsers \ {user}
            /\ Emit(<<[name |-> "UserRemovedFromWhitelist", user |-> user]>>)
            /\ Returned("removeFromWhitelist")
            /\ UNCHANGED <<owner, liquidationThreshold, feePercentage, blacklistedUsers,
                           contractBalance, locked, paused, multiSigWallets,
                           minSignatures, userPayouts, claimedOrders, balance>>

AddToBlacklist(sender, user) ==
    /\ MayCall(sender)
    /\ LET err == onlyOwner(sender) IN
       IF err # OK THEN Reverted
       ELSE /\ blacklistedUsers' = blacklistedUsers \cup {user}
            /\ Emit(<<[name |-> "UserBlacklisted", user |-> user]>>)
            /\ Returned("addToBlacklist")
            /\ UNCHANGED <<owner, liquidationThreshold, feePercentage, whitelistedUsers,
                           contractBalance, locked, paused, multiSigWallets,
                           minSignatures, userPayouts, claimedOrders, balance>>

RemoveFromBlacklist(sender, user) ==
    /\ MayCall(sender)
    /\ LET err == onlyOwner(sender) IN
       IF err # OK THEN Reverted
       ELSE /\ blacklistedUsers' = blacklistedUsers \ {user}
            /\ Emit(<<[name |-> "UserRemovedFromBlacklist", user |-> user]>>)
            /\ Returned("removeFromBlacklist")
            /\ UNCHANGED <<owner, liquidationThreshold, feePercentage, whitelistedUsers,
                           contractBalance, locked, paused, multiSigWallets,
                           minSignatures, userPayouts, claimedOrders, balance>>

\* ------------------------------------------------------- parameter updates
\* updateThreshold without its require on the bounds.
UpdateThresholdRevertUnbounded(sender, newThreshold) == onlyMultiSig(sender)

UpdateThresholdRevert(sender, newThreshold) ==
    First(<<onlyMultiSig(sender),
            Require(newThreshold > 0 /\ newThreshold < 100, "Invalid threshold")>>)

UpdateThreshold(sender, newThreshold) ==
    /\ MayCall(sender)
    /\ LET err == UpdateThresholdRevert(sender, newThreshold) IN
       IF err # OK THEN Reverted
       ELSE /\ liquidationThreshold' = newThreshold
            /\ Emit(<<[name |-> "ThresholdUpdated", newThreshold |-> newThreshold],
                      [name |-> "MultiSigExecuted", executor |-> sender,
                       action |-> "UpdateThreshold"]>>)
            /\ Returned("updateThreshold")
            /\ UNCHANGED <<owner, feePercentage, whitelistedUsers, blacklistedUsers,
                           contractBalance, locked, paused, multiSigWallets,
                           minSignatures, userPayouts, claimedOrders, balance>>

UpdateFeeRevert(sender, newFee) ==
    First(<<onlyMultiSig(sender), Require(newFee <= 5, "Invalid fee")>>)

UpdateFee(sender, newFee) ==
    /\ MayCall(sender)
    /\ LET err == UpdateFeeRevert(sender, newFee) IN
       IF err # OK THEN Reverted
       ELSE /\ feePercentage' = newFee
            /\ Emit(<<[name |-> "FeeUpdated", newFee |-> newFee],
                      [name |-> "MultiSigExecuted", executor |-> sender,
                       action |-> "UpdateFee"]>>)
            /\ Returned("updateFee")
            /\ UNCHANGED <<owner, liquidationThreshold, whitelistedUsers,
                           blacklistedUsers, contractBalance, locked, paused,
                           multiSigWallets, minSignatures, userPayouts, claimedOrders,
                           balance>>

\* -------------------------------------------------------------- submitClaim
\* submitClaim without its require on claimedOrders.
SubmitClaimRevertResubmit(sender, orderId, principal, leverage, insuranceRate) ==
    First(<<whitelistedOnly(sender),
            noReentrant,
            whenNotPaused,
            Require(principal > 0 /\ leverage > liquidationThreshold, "Invalid params"),
            Require(insuranceRate > 0 /\ insuranceRate <= 100,
                    "Invalid insurance rate")>>)

\* submitClaim accepting a leverage equal to the threshold.
SubmitClaimRevertAtThreshold(sender, orderId, principal, leverage, insuranceRate) ==
    First(<<whitelistedOnly(sender),
            noReentrant,
            whenNotPaused,
            Require(~isOrderClaimed(sender, orderId), "Order already claimed"),
            Require(principal > 0 /\ leverage >= liquidationThreshold, "Invalid params"),
            Require(insuranceRate > 0 /\ insuranceRate <= 100,
                    "Invalid insurance rate")>>)

\* The modifiers run in the order written (whitelistedOnly noReentrant
\* whenNotPaused), then the body's requires.
SubmitClaimRevert(sender, orderId, principal, leverage, insuranceRate) ==
    First(<<whitelistedOnly(sender),
            noReentrant,
            whenNotPaused,
            Require(~isOrderClaimed(sender, orderId), "Order already claimed"),
            Require(principal > 0 /\ leverage > liquidationThreshold, "Invalid params"),
            Require(insuranceRate > 0 /\ insuranceRate <= 100,
                    "Invalid insurance rate")>>)

NewRecord(orderId, principal, leverage, insuranceRate) ==
    [orderId |-> orderId,
     amount |-> EstimatedPayout(principal, insuranceRate, leverage,
                                liquidationThreshold),
     timestamp |-> now,
     verified |-> FALSE]

\* submitClaim that takes the index after the push, records.length instead of
\* records.length - 1.
SubmitClaimIndexAfterPush(sender, orderId, principal, leverage, insuranceRate) ==
    /\ MayCall(sender)
    /\ LET err == SubmitClaimRevert(sender, orderId, principal, leverage,
                                    insuranceRate) IN
       IF err # OK THEN Reverted
       ELSE /\ claimedOrders' = claimedOrders \cup {<<sender, orderId>>}
            /\ LET index == Len(Records(sender)) + 1
                   rec == NewRecord(orderId, principal, leverage, insuranceRate) IN
               /\ userPayouts' =
                     [userPayouts EXCEPT
                        ![sender].records = Append(@, rec),
                        ![sender].orderIdToIndex[orderId] = index]
               /\ Emit(<<[name |-> "ClaimSubmitted", user |-> sender,
                          orderId |-> orderId, principal |-> principal,
                          leverage |-> leverage, insuranceRate |-> insuranceRate],
                         [name |-> "PayoutVerified", user |-> sender,
                          orderId |-> orderId, principal |-> principal,
                          leverage |-> leverage, insuranceRate |-> insuranceRate,
                          payoutAmount |-> rec.amount, verified |-> FALSE]>>)
            /\ Returned("submitClaim")
            /\ UNCHANGED <<owner, liquidationThreshold, feePercentage, whitelistedUsers,
                           blacklistedUsers, contractBalance, locked, paused,
                           multiSigWallets, minSignatures, balance>>

SubmitClaim(sender, orderId, principal, leverage, insuranceRate) ==
    /\ MayCall(sender)
    /\ LET err == SubmitClaimRevert(sender, orderId, principal, leverage,
                                    insuranceRate) IN
       IF err # OK THEN Reverted
       ELSE /\ claimedOrders' = claimedOrders \cup {<<sender, orderId>>}
            /\ LET index == Len(Records(sender))
                   rec == NewRecord(orderId, principal, leverage, insuranceRate) IN
               /\ userPayouts' =
                     [userPayouts EXCEPT
                        ![sender].records = Append(@, rec),
                        ![sender].orderIdToIndex[orderId] = index]
               /\ Emit(<<[name |-> "ClaimSubmitted", user |-> sender,
                          orderId |-> orderId, principal |-> principal,
                          leverage |-> leverage, insuranceRate |-> insuranceRate],
                         [name |-> "PayoutVerified", user |-> sender,
                          orderId |-> orderId, principal |-> principal,
                          leverage |-> leverage, insuranceRate |-> insuranceRate,
                          payoutAmount |-> rec.amount, verified |-> FALSE]>>)
            /\ Returned("submitClaim")
            /\ UNCHANGED <<owner, liquidationThreshold, feePercentage, whitelistedUsers,
                           blacklistedUsers, contractBalance, locked, paused,
                           multiSigWallets, minSignatures, balance>>

\* ------------------------------------------------------- updateVerification
\* The record lookup shared by updateVerification and executePayout.
LookupRevert(user, orderId) ==
    IF ~isOrderClaimed(user, orderId) THEN "Order not claimed"
    ELSE IF ~(IndexOf(user, orderId) < Len(Records(user))) THEN "Order record not found"
    ELSE IF RecordAt(user, IndexOf(user, orderId)).orderId # orderId
         THEN "Order ID mismatch"
    ELSE OK

\* The record as updateVerification rewrites it.
\* A verified flag that latches: once true it stays true.
VerifiedRecordLatched(rec, insuranceRate, verified) ==
    [rec EXCEPT !.verified = rec.verified \/ verified,
                !.amount = VerifiedAmount(rec.amount, insuranceRate)]
\* A verification that stamps the record with the time of the verification.
VerifiedRecordRestamped(rec, insuranceRate, verified) ==
    [rec EXCEPT !.verified = verified,
                !.amount = VerifiedAmount(rec.amount, insuranceRate),
                !.timestamp = now]
VerifiedRecord(rec, insuranceRate, verified) ==
    [rec EXCEPT !.verified = verified,
                !.amount = VerifiedAmount(rec.amount, insuranceRate)]

\* updateVerification without whenNotPaused.
UpdateVerificationRevertWhilePaused(sender, user, orderId) ==
    First(<<onlyMultiSig(sender), LookupRevert(user, orderId)>>)

UpdateVerificationRevert(sender, user, orderId) ==
    First(<<onlyMultiSig(sender), whenNotPaused, LookupRevert(user, orderId)>>)

UpdateVerification(sender, user, orderId, principal, leverage, insuranceRate, verified) ==
    /\ MayCall(sender)
    /\ LET err == UpdateVerificationRevert(sender, user, orderId) IN
       IF err # OK THEN Reverted
       ELSE LET index == IndexOf(user, orderId)
                rec == VerifiedRecord(RecordAt(user, index), insuranceRate, verified)
                payoutAmount == rec.amount IN
            /\ userPayouts' = [userPayouts EXCEPT ![user].records[index + 1] = rec]
            /\ Emit(<<[name |-> "PayoutVerified", user |-> user, orderId |-> orderId,
                       principal |-> principal, leverage |-> leverage,
                       insuranceRate |-> insuranceRate,
                       payoutAmount |-> payoutAmount, verified |-> verified],
                      [name |-> "MultiSigExecuted", executor |-> sender,
                       action |-> "UpdateVerification"]>>)
            /\ Returned("updateVerification")
            /\ UNCHANGED <<owner, liquidationThreshold, feePercentage, whitelistedUsers,
                           blacklistedUsers, contractBalance, locked, paused,
                           multiSigWallets, minSignatures, claimedOrders, balance>>

\* ------------------------------------------------------------ executePayout
\* executePayout without its require on the verified flag.
ExecutePayoutRevertUnverified(sender, user, orderId) ==
    First(<<onlyMultiSig(sender),
            noReentrant,
            whenNotPaused,
            Require(user \in whitelistedUsers, "User not whitelisted"),
            Require(user \notin blacklistedUsers, "User is blacklisted"),
            LookupRevert(user, orderId),
            IF LookupRevert(user, orderId) # OK THEN OK
            ELSE LET rec == RecordAt(user, IndexOf(user, orderId)) IN
                 First(<<Require(rec.amount > 0, "Invalid payout amount"),
                         Require(rec.amount <= contractBalance,
                                 "Insufficient contract balance")>>)>>)

\* executePayout looking at the pause and at the lock after the body's
\* requires.
ExecutePayoutRevertPauseLast(sender, user, orderId) ==
    First(<<onlyMultiSig(sender),
            Require(user \in whitelistedUsers, "User not whitelisted"),
            Require(user \notin blacklistedUsers, "User is blacklisted"),
            LookupRevert(user, orderId),
            IF LookupRevert(user, orderId) # OK THEN OK
            ELSE LET rec == RecordAt(user, IndexOf(user, orderId)) IN
                 First(<<Require(rec.verified, "Not verified"),
                         Require(rec.amount > 0, "Invalid payout amount"),
                         Require(rec.amount <= contractBalance,
                                 "Insufficient contract balance")>>),
            whenNotPaused,
            noReentrant>>)

\* Modifiers onlyMultiSig noReentrant whenNotPaused, then the body's requires
\* up to the balance check.
ExecutePayoutRevert(sender, user, orderId) ==
    First(<<onlyMultiSig(sender),
            noReentrant,
            whenNotPaused,
            Require(user \in whitelistedUsers, "User not whitelisted"),
            Require(user \notin blacklistedUsers, "User is blacklisted"),
            LookupRevert(user, orderId),
            IF LookupRevert(user, orderId) # OK THEN OK
            ELSE LET rec == RecordAt(user, IndexOf(user, orderId)) IN
                 First(<<Require(rec.verified, "Not verified"),
                         Require(rec.amount > 0, "Invalid payout amount"),
                         Require(rec.amount <= contractBalance,
                                 "Insufficient contract balance")>>)>>)

\* The ledger debited by the recorded amount, fee included.
PayoutAmountGross(user, orderId) == RecordAt(user, IndexOf(user, orderId)).amount
\* The amount executePayout sends: the recorded amount less the fee.
PayoutAmount(user, orderId) ==
    NetPayout(RecordAt(user, IndexOf(user, orderId)).amount, feePercentage)

\* Up to the low-level call: the lock is taken, the ledger is debited and the
\* value leaves the contract with the call.
ExecutePayout(sender, user, orderId) ==
    /\ MayCall(sender)
    /\ LET err == ExecutePayoutRevert(sender, user, orderId) IN
       IF err # OK THEN Reverted
       ELSE IF balance < PayoutAmount(user, orderId)
            THEN Reverted
       ELSE /\ ~InFlight
            /\ locked' = TRUE
            /\ contractBalance' = contractBalance - PayoutAmount(user, orderId)
            /\ balance' = balance - PayoutAmount(user, orderId)
            /\ frame' = [op |-> "executePayout", sender |-> sender, to |-> user,
                         orderId |-> orderId, value |-> PayoutAmount(user, orderId),
                         nested |-> 0, saved |-> Snapshot, log |-> events]
            /\ events' = <<>>
            /\ last' = [op |-> "executePayout", status |-> "in flight"]
            /\ UNCHANGED <<owner, liquidationThreshold, feePercentage, whitelistedUsers,
                           blacklistedUsers, paused, multiSigWallets, minSignatures,
                           userPayouts, claimedOrders, now, paid, wallet>>

\* ----------------------------------------------------------------- withdraw
WithdrawRevert(sender, amount) ==
    First(<<onlyMultiSig(sender),
            noReentrant,
            Require(amount <= contractBalance, "Insufficient contract balance")>>)

Withdraw(sender, amount) ==
    /\ MayCall(sender)
    /\ LET err == WithdrawRevert(sender, amount) IN
       IF err # OK THEN Reverted
       ELSE IF balance < amount THEN Reverted
       ELSE /\ ~InFlight
            /\ locked' = TRUE
            /\ contractBalance' = contractBalance - amount
            /\ balance' = balance - amount
            /\ frame' = [op |-> "withdraw", sender |-> sender, to |-> owner,
                         orderId |-> 0, value |-> amount, nested |-> 0,
                         saved |-> Snapshot, log |-> events]
            /\ events' = <<>>
            /\ last' = [op |-> "withdraw", status |-> "in flight"]
            /\ UNCHANGED <<owner, liquidationThreshold, feePercentage, whitelistedUsers,
                           blacklistedUsers, paused, multiSigWallets, minSignatures,
                           userPayouts, claimedOrders, now, paid, wallet>>

\* --------------------------------------------- the low-level call comes back
\* A completed call that debits the ledger a second time.
TransferSucceedsDebitingAgain ==
    /\ InFlight
    /\ locked' = FALSE
    /\ contractBalance' = IF contractBalance >= frame.value
                          THEN contractBalance - frame.value ELSE 0
    /\ events' = events
    /\ paid' = paid
    /\ last' = [op |-> frame.op, status |-> "returned"]
    /\ frame' = NoFrame
    /\ UNCHANGED <<owner, liquidationThreshold, feePercentage, whitelistedUsers,
                   blacklistedUsers, paused, multiSigWallets, minSignatures,
                   userPayouts, claimedOrders, balance, now,
                   wallet>>

\* success = true: the rest of the body runs (the events), then the lock is
\* released by noReentrant.
TransferSucceeds ==
    /\ InFlight
    /\ locked' = FALSE
    /\ events' = events \o
          (IF frame.op = "executePayout"
           THEN <<[name |-> "Payout", user |-> frame.to, amount |-> frame.value],
                  [name |-> "MultiSigExecuted", executor |-> frame.sender,
                   action |-> "ExecutePayout"]>>
           ELSE <<[name |-> "Withdrawal", owner |-> owner, amount |-> frame.value],
                  [name |-> "MultiSigExecuted", executor |-> frame.sender,
                   action |-> "Withdraw"]>>)
    /\ paid' = IF frame.op = "executePayout"
               THEN paid \cup {<<frame.to, frame.orderId>>} ELSE paid
    /\ last' = [op |-> frame.op, status |-> "returned"]
    /\ frame' = NoFrame
    /\ UNCHANGED <<owner, liquidationThreshold, feePercentage, whitelistedUsers,
                   blacklistedUsers, contractBalance, paused, multiSigWallets,
                   minSignatures, userPayouts, claimedOrders, balance, now,
                   wallet>>

\* A failed call after which the debit of the ledger stays.
TransferFailsDebited ==
    /\ InFlight
    /\ locked' = FALSE
    /\ events' = frame.log
    /\ last' = [op |-> frame.op, status |-> "reverted"]
    /\ frame' = NoFrame
    /\ UNCHANGED <<owner, liquidationThreshold, feePercentage, whitelistedUsers,
                   blacklistedUsers, contractBalance, paused, multiSigWallets,
                   minSignatures, userPayouts, claimedOrders, balance, now, paid, wallet>>

\* A failed call that undoes the transaction but leaves the lock taken.
TransferFailsLockHeld ==
    /\ InFlight
    /\ owner' = frame.saved.owner
    /\ liquidationThreshold' = frame.saved.liquidationThreshold
    /\ feePercentage' = frame.saved.feePercentage
    /\ whitelistedUsers' = frame.saved.whitelistedUsers
    /\ blacklistedUsers' = frame.saved.blacklistedUsers
    /\ contractBalance' = frame.saved.contractBalance
    /\ locked' = TRUE
    /\ paused' = frame.saved.paused
    /\ multiSigWallets' = frame.saved.multiSigWallets
    /\ minSignatures' = frame.saved.minSignatures
    /\ userPayouts' = frame.saved.userPayouts
    /\ claimedOrders' = frame.saved.claimedOrders
    /\ balance' = frame.saved.balance
    /\ events' = frame.log
    /\ last' = [op |-> frame.op, status |-> "reverted"]
    /\ frame' = NoFrame
    /\ UNCHANGED <<now, paid, wallet>>

\* success = false: require(success, ...) reverts the transaction, and with it
\* everything done since it began, the nested calls' effects included.
TransferFails ==
    /\ InFlight
    /\ owner' = frame.saved.owner
    /\ liquidationThreshold' = frame.saved.liquidationThreshold
    /\ feePercentage' = frame.saved.feePercentage
    /\ whitelistedUsers' = frame.saved.whitelistedUsers
    /\ blacklistedUsers' = frame.saved.blacklistedUsers
    /\ contractBalance' = frame.saved.contractBalance
    /\ locked' = frame.saved.locked
    /\ paused' = frame.saved.paused
    /\ multiSigWallets' = frame.saved.multiSigWallets
    /\ minSignatures' = frame.saved.minSignatures
    /\ userPayouts' = frame.saved.userPayouts
    /\ claimedOrders' = frame.saved.claimedOrders
    /\ balance' = frame.saved.balance
    /\ events' = frame.log
    /\ last' = [op |-> frame.op, status |-> "reverted"]
    /\ frame' = NoFrame
    /\ UNCHANGED <<now, paid, wallet>>

\* --------------------------------------------------------------- governance
\* transferOwnership without its require on the new owner.
TransferOwnershipRevertZero(sender, newOwner) == onlyOwner(sender)

TransferOwnershipRevert(sender, newOwner) ==
    First(<<onlyOwner(sender), Require(newOwner # ZeroAddress, "Invalid address")>>)

TransferOwnership(sender, newOwner) ==
    /\ MayCall(sender)
    /\ LET err == TransferOwnershipRevert(sender, newOwner) IN
       IF err # OK THEN Reverted
       ELSE /\ owner' = newOwner
            /\ Emit(<<[name |-> "OwnerChanged", newOwner |-> newOwner]>>)
            /\ Returned("transferOwnership")
            /\ UNCHANGED <<liquidationThreshold, feePercentage, whitelistedUsers,
                           blacklistedUsers, contractBalance, locked, paused,
                           multiSigWallets, minSignatures, userPayouts, claimedOrders,
                           balance>>

UpdateMultiSigWallets(sender, newWallets) ==
    /\ MayCall(sender)
    /\ LET err == First(<<onlyOwner(sender),
                          Require(Len(newWallets) >= minSignatures,
                                  "Insufficient multi-sig wallets")>>) IN
       IF err # OK THEN Reverted
       ELSE /\ multiSigWallets' = newWallets
            /\ Emit(<<>>)
            /\ Returned("updateMultiSigWallets")
            /\ UNCHANGED <<owner, liquidationThreshold, feePercentage, whitelistedUsers,
                           blacklistedUsers, contractBalance, locked, paused,
                           minSignatures, userPayouts, claimedOrders, balance>>

\* updateMinSignatures accepting a quorum size of zero.
UpdateMinSignaturesRevertZero(sender, min) ==
    First(<<onlyOwner(sender),
            Require(min <= Len(multiSigWallets), "Invalid min signatures")>>)

UpdateMinSignaturesRevert(sender, min) ==
    First(<<onlyOwner(sender),
            Require(min > 0 /\ min <= Len(multiSigWallets), "Invalid min signatures")>>)

UpdateMinSignatures(sender, min) ==
    /\ MayCall(sender)
    /\ LET err == UpdateMinSignaturesRevert(sender, min) IN
       IF err # OK THEN Reverted
       ELSE /\ minSignatures' = min
            /\ Emit(<<>>)
            /\ Returned("updateMinSignatures")
            /\ UNCHANGED <<owner, liquidationThreshold, feePercentage, whitelistedUsers,
                           blacklistedUsers, contractBalance, locked, paused,
                           multiSigWallets, userPayouts, claimedOrders, balance>>

MarkLiquidation(sender, user, leverageRatio) ==
    /\ MayCall(sender)
    /\ LET err == First(<<onlyOwner(sender),
                          Require(user \notin blacklistedUsers, "User is blacklisted"),
                          Require(leverageRatio > liquidationThreshold,
                                  "Leverage below threshold")>>) IN
       IF err # OK THEN Reverted
       ELSE /\ Emit(<<[name |-> "PositionLiquidated", user |-> user,
                       leverageRatio |-> leverageRatio]>>)
            /\ Returned("markLiquidation")
            /\ UNCHANGED storage

\* ------------------------------------------------------------------- blocks
\* A later block: block.timestamp does not move inside a transaction.
Tick ==
    /\ ~InFlight
    /\ now < MaxTime
    /\ now' = now + 1
    /\ UNCHANGED <<storage, events, frame, last, paid, wallet>>

\* --------------------------------------------------------------- revision 1
\* LeverageGuard.sol, the first revision: one owner instead of the roster, no
\* pause, no index from orderId to record.  Its functions are written over a
\* value st of its storage: the owner and locked, the parameters, the
\* membership sets, contractBalance, userPayouts (a list of records for each
\* user) and claimedOrders.
Rev1OnlyOwner(st, sender) == Require(sender = st.owner, "Not owner")

Rev1WhitelistedOnly(st, sender) ==
    First(<<Require(sender \in st.whitelistedUsers, "User not whitelisted"),
            Require(sender \notin st.blacklistedUsers, "User is blacklisted")>>)

Rev1NoReentrant(st) == Require(~st.locked, "Reentrant call")

Rev1AddFunds(st, sender, value) ==
    IF Rev1OnlyOwner(st, sender) # OK THEN st
    ELSE [st EXCEPT !.contractBalance = @ + value]

Rev1AddToWhitelistRevert(st, sender, user) ==
    First(<<Rev1OnlyOwner(st, sender), Require(user # ZeroAddress, "Invalid address")>>)

Rev1AddToWhitelist(st, sender, user) ==
    IF Rev1AddToWhitelistRevert(st, sender, user) # OK THEN st
    ELSE [st EXCEPT !.whitelistedUsers = @ \cup {user}]

Rev1UpdateThresholdRevert(st, sender, newThreshold) ==
    First(<<Rev1OnlyOwner(st, sender),
            Require(newThreshold > 0 /\ newThreshold < 100, "Invalid threshold")>>)

Rev1UpdateThreshold(st, sender, newThreshold) ==
    IF Rev1UpdateThresholdRevert(st, sender, newThreshold) # OK THEN st
    ELSE [st EXCEPT !.liquidationThreshold = newThreshold]

Rev1UpdateFeeRevert(st, sender, newFee) ==
    First(<<Rev1OnlyOwner(st, sender), Require(newFee <= 5, "Invalid fee")>>)

Rev1UpdateFee(st, sender, newFee) ==
    IF Rev1UpdateFeeRevert(st, sender, newFee) # OK THEN st
    ELSE [st EXCEPT !.feePercentage = newFee]

Rev1SubmitClaimRevert(st, sender, orderId, principal, leverage, insuranceRate) ==
    First(<<Rev1WhitelistedOnly(st, sender),
            Rev1NoReentrant(st),
            Require(<<sender, orderId>> \notin st.claimedOrders, "Order already claimed"),
            Require(principal > 0 /\ leverage > st.liquidationThreshold, "Invalid params"),
            Require(insuranceRate > 0 /\ insuranceRate <= 100,
                    "Invalid insurance rate")>>)

Rev1EstimatedPayout(st, principal, insuranceRate, leverage) ==
    (principal * insuranceRate * (leverage - st.liquidationThreshold)) \div 10000

Rev1SubmitClaim(st, sender, orderId, principal, leverage, insuranceRate) ==
    IF Rev1SubmitClaimRevert(st, sender, orderId, principal, leverage,
                             insuranceRate) # OK
    THEN st
    ELSE [st EXCEPT
            !.claimedOrders = @ \cup {<<sender, orderId>>},
            !.userPayouts[sender] =
                Append(@, [orderId |-> orderId,
                           amount |-> Rev1EstimatedPayout(st, principal, insuranceRate,
                                                          leverage),
                           timestamp |-> now,
                           verified |-> FALSE])]

\* The loops of revision 1 run from the last record down and stop at the
\* first record of the order: the position they find, 0 if there is none.
Rev1LastMatch(recs, orderId) ==
    LET found == {i \in 1..Len(recs) : recs[i].orderId = orderId} IN
    IF found = {} THEN 0 ELSE CHOOSE i \in found : \A j \in found : j <= i

Rev1UpdateVerificationRevert(st, sender, user, orderId) ==
    First(<<Rev1OnlyOwner(st, sender),
            Require(<<user, orderId>> \in st.claimedOrders, "Order not claimed"),
            Require(Len(st.userPayouts[user]) > 0, "No record"),
            Require(Rev1LastMatch(st.userPayouts[user], orderId) # 0,
                    "Order mismatch")>>)

Rev1UpdateVerification(st, sender, user, orderId, insuranceRate, verified) ==
    IF Rev1UpdateVerificationRevert(st, sender, user, orderId) # OK THEN st
    ELSE LET i == Rev1LastMatch(st.userPayouts[user], orderId)
             payoutAmount == (st.userPayouts[user][i].amount * insuranceRate) \div 100 IN
         [st EXCEPT !.userPayouts[user][i].verified = verified,
                    !.userPayouts[user][i].amount = payoutAmount]

\* executePayout of revision 1 checking the net amount against the ledger.
Rev1ExecutePayoutRevertNet(st, sender, user, orderId, amount) ==
    First(<<Rev1OnlyOwner(st, sender),
            Rev1NoReentrant(st),
            Require(user \in st.whitelistedUsers, "User not whitelisted"),
            Require(user \notin st.blacklistedUsers, "User is blacklisted"),
            Require(<<user, orderId>> \in st.claimedOrders, "Order not claimed"),
            Require(amount > 0, "Amount must be > 0"),
            Require(amount - (amount * st.feePercentage) \div 100 <= st.contractBalance,
                    "Insufficient contract balance"),
            Require(Len(st.userPayouts[user]) > 0, "No record"),
            Require(\E i \in 1..Len(st.userPayouts[user]) :
                        /\ st.userPayouts[user][i].orderId = orderId
                        /\ st.userPayouts[user][i].verified,
                    "Not verified")>>)

Rev1ExecutePayoutRevert(st, sender, user, orderId, amount) ==
    First(<<Rev1OnlyOwner(st, sender),
            Rev1NoReentrant(st),
            Require(user \in st.whitelistedUsers, "User not whitelisted"),
            Require(user \notin st.blacklistedUsers, "User is blacklisted"),
            Require(<<user, orderId>> \in st.claimedOrders, "Order not claimed"),
            Require(amount > 0, "Amount must be > 0"),
            Require(amount <= st.contractBalance, "Insufficient contract balance"),
            Require(Len(st.userPayouts[user]) > 0, "No record"),
            Require(\E i \in 1..Len(st.userPayouts[user]) :
                        /\ st.userPayouts[user][i].orderId = orderId
                        /\ st.userPayouts[user][i].verified,
                    "Not verified")>>)

Rev1PayoutAmount(st, amount) == amount - (amount * st.feePercentage) \div 100

\* Revision 1 inside executePayout, at its low-level call: the lock taken and
\* the ledger debited by what is being sent.
Rev1ExecutePayout(st, sender, user, orderId, amount) ==
    IF Rev1ExecutePayoutRevert(st, sender, user, orderId, amount) # OK THEN st
    ELSE [st EXCEPT !.locked = TRUE,
                    !.contractBalance = @ - Rev1PayoutAmount(st, amount)]

\* The call of revision 1 came back with success: the modifier frees the lock.
Rev1TransferSucceeds(st) == [st EXCEPT !.locked = FALSE]

\* Revision 1 after its constructor, deployed by the same identity.
Rev1Init ==
    [owner |-> Deployer, locked |-> FALSE, liquidationThreshold |-> 80,
     feePercentage |-> 5, whitelistedUsers |-> {}, blacklistedUsers |-> {},
     contractBalance |-> 0, userPayouts |-> [u \in Address |-> <<>>],
     claimedOrders |-> {}]

\* The storage of revision 1 that corresponds to a storage s of revision 2:
\* the fields the two revisions share, the records without the index.
Rev1Image(s) ==
    [owner |-> s.owner, locked |-> s.locked,
     liquidationThreshold |-> s.liquidationThreshold,
     feePercentage |-> s.feePercentage,
     whitelistedUsers |-> s.whitelistedUsers,
     blacklistedUsers |-> s.blacklistedUsers,
     contractBalance |-> s.contractBalance,
     userPayouts |-> [u \in Address |-> s.userPayouts[u].records],
     claimedOrders |-> s.claimedOrders]
Rev1Of == Rev1Image(Snapshot)

\* ----------------------------------------------------------- specifications
\* The identities: 1 deploys and owns the contract; 2, 3 and 5 are the
\* multi-sig wallets; 3 is a claimant as well; 4 holds no role.
Callers == {1, 2, 4}
Submitters == {3, 4}
Claimants == {3}
SettledOrders == {1}

\* Spec: the settlement path of one claim.  Every transaction runs to its end
\* before the next one starts: the recipient of a transfer calls nothing back
\* (SpecReentrant lets it).
Next ==
    \/ \E s \in Callers : ~InFlight /\ Pause(s)
    \/ \E s \in Callers : ~InFlight /\ Unpause(s)
    \/ \E s \in Callers, v \in FundAmounts : ~InFlight /\ AddFunds(s, v)
    \/ \E s \in Callers, v \in FundAmounts : ~InFlight /\ Receive(s, v)
    \/ \E s \in Callers : ~InFlight /\ SyncBalance(s)
    \/ \E s \in Callers, u \in Claimants : ~InFlight /\ AddToWhitelist(s, u)
    \/ \E s \in Callers, u \in Claimants : ~InFlight /\ RemoveFromWhitelist(s, u)
    \/ \E s \in Callers, u \in Claimants : ~InFlight /\ AddToBlacklist(s, u)
    \/ \E s \in Callers, u \in Claimants : ~InFlight /\ RemoveFromBlacklist(s, u)
    \/ \E s \in Callers, t \in Thresholds : ~InFlight /\ UpdateThreshold(s, t)
    \/ \E s \in Callers, f \in Fees : ~InFlight /\ UpdateFee(s, f)
    \/ \E s \in Submitters, o \in SettledOrders, p \in Principals,
          l \in Leverages, r \in InsuranceRates :
          ~InFlight /\ SubmitClaim(s, o, p, l, r)
    \/ \E s \in Callers, u \in Claimants, o \in SettledOrders,
          r \in VerifyRates, v \in BOOLEAN :
          ~InFlight /\ UpdateVerification(s, u, o, 1000, 90, r, v)
    \/ \E s \in Callers, u \in Claimants, o \in SettledOrders :
          ~InFlight /\ ExecutePayout(s, u, o)
    \/ \E s \in Callers, a \in WithdrawAmounts : ~InFlight /\ Withdraw(s, a)
    \/ TransferSucceeds
    \/ TransferFails

Spec == Init /\ [][Next]_vars

\* SpecReentrant: the recipient of a payout calls back into the contract.
\* Top-level transactions come from the role that normally sends them (owner 1
\* whitelists and funds, the claimants submit, wallet 2 verifies and settles);
\* while a payout is in flight its recipient (claimant 3, itself a wallet of
\* the roster, or claimant 4, on no roster) may call the functions below.
Reentrants == {3, 4}
TopLevel(sender, role) == IF InFlight THEN sender \in Reentrants ELSE sender \in role

NextReentrant ==
    \/ \E s \in Address, v \in FundAmounts : TopLevel(s, {1}) /\ AddFunds(s, v)
    \/ \E s \in Address, u \in Reentrants : TopLevel(s, {1}) /\ AddToWhitelist(s, u)
    \/ \E s \in Address, o \in OrderIds :
          /\ TopLevel(s, Reentrants) /\ (InFlight \/ o \in SettledOrders)
          /\ SubmitClaim(s, o, 1000, 90, 50)
    \/ \E s \in Address, u \in Reentrants, v \in BOOLEAN :
          /\ TopLevel(s, {2}) /\ (InFlight \/ v)
          /\ \E o \in SettledOrders : UpdateVerification(s, u, o, 1000, 90, 50, v)
    \/ \E s \in Address, u \in Reentrants, o \in SettledOrders :
          TopLevel(s, {2}) /\ ExecutePayout(s, u, o)
    \/ \E s \in Address, a \in WithdrawAmounts : TopLevel(s, {2}) /\ Withdraw(s, a)
    \/ TransferSucceeds
    \/ TransferFails

SpecReentrant == Init /\ [][NextReentrant]_vars

\* SpecRegistry: the claim registry on its own, with time passing between the
\* transactions: two claimants with two orders each, submissions under a
\* threshold the wallets move, and verification; there are no funds and no
\* settlement.
NextRegistry ==
    \/ \E s \in Callers : Pause(s)
    \/ \E s \in Callers, u \in Submitters : AddToWhitelist(s, u)
    \/ \E s \in Callers, t \in Thresholds : UpdateThreshold(s, t)
    \/ \E s \in Submitters, o \in OrderIds, p \in Principals, l \in Leverages,
          r \in InsuranceRates : SubmitClaim(s, o, p, l, r)
    \/ \E s \in Callers, u \in Submitters, o \in SettledOrders, v \in BOOLEAN :
          UpdateVerification(s, u, o, 1000, 90, 100, v)
    \/ Tick

SpecRegistry == Init /\ [][NextRegistry]_vars

\* SpecAdmin: every mutating operation on one claim, each called by the owner,
\* by a wallet of the roster and by an outsider, with arguments that pass and
\* arguments that fail, while the ownership may pass from the deployer to 4.
NewOwners == {ZeroAddress, 4}
NextAdmin ==
    \/ \E s \in Callers : ~InFlight /\ Pause(s)
    \/ \E s \in Callers : ~InFlight /\ Unpause(s)
    \/ \E s \in Callers, n \in NewOwners : ~InFlight /\ TransferOwnership(s, n)
    \/ \E s \in Callers, v \in FundAmounts : ~InFlight /\ AddFunds(s, v)
    \/ \E s \in Callers, u \in Claimants \cup {ZeroAddress} :
          ~InFlight /\ AddToWhitelist(s, u)
    \/ \E s \in Callers, u \in Claimants : ~InFlight /\ RemoveFromWhitelist(s, u)
    \/ \E s \in Callers, u \in Claimants : ~InFlight /\ AddToBlacklist(s, u)
    \/ \E s \in Callers, u \in Claimants : ~InFlight /\ RemoveFromBlacklist(s, u)
    \/ \E s \in Callers, t \in Thresholds : ~InFlight /\ UpdateThreshold(s, t)
    \/ \E s \in Callers, f \in Fees : ~InFlight /\ UpdateFee(s, f)
    \/ \E s \in Submitters, o \in SettledOrders, p \in Principals :
          ~InFlight /\ SubmitClaim(s, o, p, 90, 50)
    \/ \E s \in Callers, u \in Claimants, o \in OrderIds, v \in BOOLEAN :
          ~InFlight /\ UpdateVerification(s, u, o, 1000, 90, 50, v)
    \/ \E s \in Callers, u \in Claimants, o \in SettledOrders :
          ~InFlight /\ ExecutePayout(s, u, o)
    \/ \E s \in Callers, a \in WithdrawAmounts : ~InFlight /\ Withdraw(s, a)
    \/ TransferSucceeds
    \/ TransferFails

SpecAdmin == Init /\ [][NextAdmin]_vars

\* SpecGovernance: the parameters and the roster under the governance
\* operations, called by the owner, by a wallet and by an outsider with values
\* inside, on and outside the bounds, while the ownership may pass on.
ThresholdValues == Thresholds \cup {1, 99}
FeeValues == Fees \cup {5}
MinSignatureValues == 0..4
WalletLists == {<<>>, <<2>>, <<2, 3, 5>>, <<2, 3, 5, 4>>}
LeverageRatios == {80, 90}

NextGovernance ==
    \/ \E s \in Callers, n \in NewOwners : TransferOwnership(s, n)
    \/ \E s \in Callers, w \in WalletLists : UpdateMultiSigWallets(s, w)
    \/ \E s \in Callers, m \in MinSignatureValues : UpdateMinSignatures(s, m)
    \/ \E s \in Callers, t \in ThresholdValues : UpdateThreshold(s, t)
    \/ \E s \in Callers, f \in FeeValues : UpdateFee(s, f)
    \/ \E s \in Callers, u \in Claimants : AddToBlacklist(s, u)
    \/ \E s \in Callers, u \in Claimants, l \in LeverageRatios :
          MarkLiquidation(s, u, l)

SpecGovernance == Init /\ [][NextGovernance]_vars

\* SpecQuorum: one claim verified and settled while the owner moves the quorum
\* size and replaces the roster.  Of the identities that call, only wallet 2
\* is ever on a roster: whatever is verified or settled is the act of that one
\* wallet.
QuorumRosters == {<<2>>, <<3, 5>>, <<2, 3, 5>>}

NextQuorum ==
    \/ \E s \in Callers, v \in FundAmounts : ~InFlight /\ AddFunds(s, v)
    \/ \E s \in Callers, u \in Claimants : ~InFlight /\ AddToWhitelist(s, u)
    \/ \E s \in Callers, w \in QuorumRosters :
          ~InFlight /\ UpdateMultiSigWallets(s, w)
    \/ \E s \in Callers, m \in MinSignatureValues :
          ~InFlight /\ UpdateMinSignatures(s, m)
    \/ \E s \in Claimants, o \in SettledOrders :
          ~InFlight /\ SubmitClaim(s, o, 1000, 90, 50)
    \/ \E s \in Callers, u \in Claimants, o \in SettledOrders, v \in BOOLEAN :
          ~InFlight /\ UpdateVerification(s, u, o, 1000, 90, 50, v)
    \/ \E s \in Callers, u \in Claimants, o \in SettledOrders :
          ~InFlight /\ ExecutePayout(s, u, o)
    \/ TransferSucceeds
    \/ TransferFails

SpecQuorum == Init /\ [][NextQuorum]_vars

\* SpecLedger: the two balances, contractBalance and the ether the contract
\* holds, under every operation that touches either, next to operations that
\* touch neither.
LedgerAmounts == {6, 30}
LedgerWithdrawals == {6} \cup WithdrawAmounts

NextLedger ==
    \/ \E s \in Callers : ~InFlight /\ Pause(s)
    \/ \E s \in Callers : ~InFlight /\ Unpause(s)
    \/ \E s \in Callers, v \in LedgerAmounts : ~InFlight /\ AddFunds(s, v)
    \/ \E s \in Callers, v \in LedgerAmounts : ~InFlight /\ Receive(s, v)
    \/ \E v \in LedgerAmounts : ForcedTransfer(v)
    \/ \E s \in Callers : ~InFlight /\ SyncBalance(s)
    \/ \E s \in Callers, u \in Claimants : ~InFlight /\ AddToWhitelist(s, u)
    \/ \E s \in Callers, f \in Fees : ~InFlight /\ UpdateFee(s, f)
    \/ \E s \in Claimants, o \in SettledOrders :
          ~InFlight /\ SubmitClaim(s, o, 1000, 90, 50)
    \/ \E s \in Callers, u \in Claimants, o \in SettledOrders :
          ~InFlight /\ UpdateVerification(s, u, o, 1000, 90, 50, TRUE)
    \/ \E s \in Callers, u \in Claimants, o \in SettledOrders :
          ~InFlight /\ ExecutePayout(s, u, o)
    \/ \E s \in Callers, a \in LedgerWithdrawals : ~InFlight /\ Withdraw(s, a)
    \/ TransferSucceeds
    \/ TransferFails

SpecLedger == Init /\ [][NextLedger]_vars

\* SpecArchive: the records of claimant 3, who submits two orders in either
\* order and at different times, under every operation that could touch
\* them: verification and settlement of order 1 by wallet 2 (order 2 is the
\* claim nobody verifies), the owner's pause, funding and membership changes,
\* withdrawal, and transfers that succeed or fail.
NextArchive ==
    \/ ~InFlight /\ Pause(1)
    \/ \E v \in FundAmounts : ~InFlight /\ AddFunds(1, v)
    \/ \E u \in Claimants : ~InFlight /\ AddToWhitelist(1, u)
    \/ \E u \in Claimants : ~InFlight /\ RemoveFromWhitelist(1, u)
    \/ \E u \in Claimants : ~InFlight /\ AddToBlacklist(1, u)
    \/ \E s \in Claimants, o \in OrderIds : ~InFlight /\ SubmitClaim(s, o, 1000, 90, 50)
    \/ \E u \in Claimants, o \in SettledOrders, v \in BOOLEAN :
          ~InFlight /\ UpdateVerification(2, u, o, 1000, 90, 50, v)
    \/ \E u \in Claimants, o \in SettledOrders : ~InFlight /\ ExecutePayout(2, u, o)
    \/ \E a \in WithdrawAmounts : ~InFlight /\ Withdraw(2, a)
    \/ TransferSucceeds
    \/ TransferFails
    \/ Tick

SpecArchive == Init /\ [][NextArchive]_vars

\* SpecRates: one claim of 20 (principal 1000, leverage 90, insurance rate
\* 20 at threshold 80) verified by wallet 2 with insurance rates below, at
\* and above 100, and settled from a ledger of 30.  The recorded amount is
\* kept within MaxAmount.
OverRates == {50, 100, 150}
NextRates ==
    \/ \E s \in Callers, v \in FundAmounts : ~InFlight /\ AddFunds(s, v)
    \/ \E s \in Callers, u \in Claimants : ~InFlight /\ AddToWhitelist(s, u)
    \/ \E s \in Claimants, o \in SettledOrders :
          ~InFlight /\ SubmitClaim(s, o, 1000, 90, 20)
    \/ \E s \in Callers, u \in Claimants, o \in SettledOrders, r \in OverRates,
          v \in BOOLEAN :
          /\ ~InFlight
          /\ isOrderClaimed(u, o) =>
                VerifiedAmount(RecordAt(u, IndexOf(u, o)).amount, r) <= MaxAmount
          /\ UpdateVerification(s, u, o, 1000, 90, r, v)
    \/ \E s \in Callers, u \in Claimants, o \in SettledOrders :
          ~InFlight /\ ExecutePayout(s, u, o)
    \/ TransferSucceeds
    \/ TransferFails

SpecRates == Init /\ [][NextRates]_vars

\* SpecRevisions: revision 2 deployed by 1 with 1 itself on the roster, so
\* that one identity is the owner of revision 1, the owner of revision 2 and
\* a wallet of its roster.  The same calls go to both revisions: those of
\* that identity, of claimant 3 and of the outsider 4 (the other wallets, 2
\* and 5, make no call); nobody pauses.  Claimant 3 submits two orders.
RevisionWallets == <<1, 2, 5>>
RevisionCallers == {1, 3, 4}

InitRevisions ==
    /\ owner = Deployer
    /\ liquidationThreshold = 80
    /\ feePercentage = 5
    /\ whitelistedUsers = {}
    /\ blacklistedUsers = {}
    /\ contractBalance = 0
    /\ locked = FALSE
    /\ paused = FALSE
    /\ multiSigWallets = RevisionWallets
    /\ minSignatures = 3
    /\ userPayouts = [u \in Address |->
                        [records |-> <<>>, orderIdToIndex |-> [o \in OrderIds |-> 0]]]
    /\ claimedOrders = {}
    /\ balance = 0
    /\ events = <<>>
    /\ now = 0
    /\ frame = NoFrame
    /\ last = [op |-> "constructor", status |-> "returned"]
    /\ paid = {}
    /\ wallet = WalletConstructed

NextRevisions ==
    \/ \E s \in RevisionCallers, v \in FundAmounts : ~InFlight /\ AddFunds(s, v)
    \/ \E s \in RevisionCallers, u \in Claimants : ~InFlight /\ AddToWhitelist(s, u)
    \/ \E s \in RevisionCallers, f \in Fees : ~InFlight /\ UpdateFee(s, f)
    \/ \E s \in RevisionCallers, o \in OrderIds :
          ~InFlight /\ SubmitClaim(s, o, 1000, 90, 50)
    \/ \E s \in RevisionCallers, u \in Claimants, o \in OrderIds, v \in BOOLEAN :
          ~InFlight /\ UpdateVerification(s, u, o, 1000, 90, 50, v)
    \/ \E s \in RevisionCallers, u \in Claimants, o \in OrderIds :
          ~InFlight /\ ExecutePayout(s, u, o)
    \/ TransferSucceeds
    \/ TransferFails

SpecRevisions == InitRevisions /\ [][NextRevisions]_vars

\* SpecIndex: the index of two claimants with two orders each, submitted in
\* any order; order 1 is submitted for an estimate of 20 and order 2 for an
\* estimate of 10, wallet 2 verifies at rate 100 and settles either order of
\* either claimant, and transfers succeed or fail.
OrderRate(o) == IF o = 1 THEN 20 ELSE 10

NextIndex ==
    \/ \E v \in FundAmounts : ~InFlight /\ AddFunds(1, v)
    \/ \E u \in Submitters : ~InFlight /\ AddToWhitelist(1, u)
    \/ \E s \in Submitters, o \in OrderIds :
          ~InFlight /\ SubmitClaim(s, o, 1000, 90, OrderRate(o))
    \/ \E u \in Submitters, o \in OrderIds, v \in BOOLEAN :
          ~InFlight /\ UpdateVerification(2, u, o, 1000, 90, 100, v)
    \/ \E u \in Submitters, o \in OrderIds : ~InFlight /\ ExecutePayout(2, u, o)
    \/ TransferSucceeds
    \/ TransferFails

SpecIndex == Init /\ [][NextIndex]_vars

\* SpecWallet: the WalletConnectButton alone, under clicks, provider requests
\* that return in any order, wallet events and timers.
NextWallet ==
    \/ handleConnectClick
    \/ \E i \in 1..MaxPending, accounts \in AccountLists, rejected \in BOOLEAN :
          requestAccountsReturns(i, accounts, rejected)
    \/ \E i \in 1..MaxPending, thrown \in BOOLEAN : ensureBaseNetworkReturns(i, thrown)
    \/ handleSignClick
    \/ \E rejected \in BOOLEAN : personalSignReturns(rejected)
    \/ signTimerFires
    \/ \E accounts \in AccountLists : handleAccountsChanged(accounts)
    \/ \E chainId \in Chains : handleChainChanged(chainId)

SpecWallet == Init /\ [][NextWallet]_vars

\* ------------------------------------------------------------------ claims
\* The record of a claimed order, and the steps of a settlement.
ClaimRecord(u, o) == RecordAt(u, IndexOf(u, o))
Claimed == {k \in Address \X OrderIds : isOrderClaimed(k[1], k[2])}
PayoutStarts == ~InFlight /\ frame'.op = "executePayout"
PayoutCompletes ==
    InFlight /\ frame.op = "executePayout" /\ frame' = NoFrame
    /\ last'.status = "returned"
PayoutRolledBack ==
    InFlight /\ frame.op = "executePayout" /\ frame' = NoFrame
    /\ last'.status = "reverted"

\* C1: a claim is paid at most once: once an executePayout for (owner,
\* claimId) has completed, no later executePayout for the same pair goes
\* through.
C1_PaidAtMostOnce ==
    [][~(PayoutCompletes /\ <<frame.to, frame.orderId>> \in paid)]_vars

\* C2: each settlement debits the ledger by exactly its net (post-fee)
\* amount -- at the debit, and again when the payout has completed, the
\* balance is the balance before the call less the recorded amount less
\* floor(amount * fee / 100) -- and the ledger balance is never negative.
C2_LedgerDebit ==
    [][/\ contractBalance >= 0 /\ contractBalance' >= 0
       /\ PayoutStarts =>
            LET p == ClaimRecord(frame'.to, frame'.orderId).amount IN
            /\ frame'.value = p - ((p * feePercentage) \div 100)
            /\ contractBalance' = contractBalance - frame'.value
       /\ PayoutCompletes =>
            contractBalance' = frame.saved.contractBalance - frame.value]_vars

\* A settlement has completed and has debited the ledger by a net amount
\* smaller than the recorded amount.
C2_Witness ==
    /\ last = [op |-> "executePayout", status |-> "returned"]
    /\ events[1].name = "Payout"
    /\ events[1].amount < ClaimRecord(3, 1).amount
    /\ contractBalance + events[1].amount \in FundAmounts

\* The operations that carry noReentrant.
Guarded == {"executePayout", "submitClaim", "withdraw"}
PayoutInFlight == InFlight /\ frame.op = "executePayout"

\* C3 as stated: while an executePayout is in flight, every call its
\* recipient makes to executePayout, submitClaim or withdraw fails with
\* "Reentrant call".
C3_AlwaysReentrancyError ==
    PayoutInFlight =>
        /\ \A u \in Address, o \in OrderIds :
              ExecutePayoutRevert(frame.to, u, o) = "Reentrant call"
        /\ \A a \in WithdrawAmounts :
              WithdrawRevert(frame.to, a) = "Reentrant call"
        /\ \A o \in OrderIds, p \in Principals, l \in Leverages,
                r \in InsuranceRates :
              SubmitClaimRevert(frame.to, o, p, l, r) = "Reentrant call"

\* C3 as amended: while an executePayout is in flight the lock is held and
\* every call to executePayout, submitClaim or withdraw fails, whoever makes
\* it and whatever its arguments, so that no such call takes effect before the
\* transfer comes back and no claim is added; the failure is "Reentrant call"
\* when the caller passes the authorization modifier that runs before the lock
\* check (onlyMultiSig for executePayout and withdraw, whitelistedOnly for
\* submitClaim), and the authorization error otherwise.
C3_NestedGuardedCallsFail ==
    /\ [](PayoutInFlight =>
            /\ locked
            /\ \A s \in Address :
                 /\ \A u \in Address, o \in OrderIds :
                       LET e == ExecutePayoutRevert(s, u, o) IN
                       /\ e # OK
                       /\ e = IF onlyMultiSig(s) = OK THEN "Reentrant call"
                              ELSE onlyMultiSig(s)
                 /\ \A a \in WithdrawAmounts :
                       LET e == WithdrawRevert(s, a) IN
                       /\ e # OK
                       /\ e = IF onlyMultiSig(s) = OK THEN "Reentrant call"
                              ELSE onlyMultiSig(s)
                 /\ \A o \in OrderIds, p \in Principals, l \in Leverages,
                         r \in InsuranceRates :
                       LET e == SubmitClaimRevert(s, o, p, l, r) IN
                       /\ e # OK
                       /\ e = IF whitelistedOnly(s) = OK THEN "Reentrant call"
                              ELSE whitelistedOnly(s))
    /\ [][PayoutInFlight /\ InFlight' =>
            /\ last'.op \notin Guarded
            /\ claimedOrders' = claimedOrders
            /\ \A u \in Address : Len(Records(u))' = Len(Records(u))]_vars

\* A payout to claimant 3 is in flight, the recipient has already made one
\* nested call that went through (to a function without the lock), and its
\* calls to the three guarded operations are rejected by the lock.
C3_Witness ==
    /\ PayoutInFlight /\ frame.to = 3 /\ frame.nested = 1
    /\ last = [op |-> "updateVerification", status |-> "returned"]
    /\ ExecutePayoutRevert(3, 3, 1) = "Reentrant call"
    /\ SubmitClaimRevert(3, 2, 1000, 90, 50) = "Reentrant call"
    /\ WithdrawRevert(3, 24) = "Reentrant call"

\* A step that appends a record to some list.
Appends(u) == Len(Records(u))' > Len(Records(u))

\* C4 as stated: a submitClaim for an (owner, claimId) already claimed fails
\* with "Order already claimed", whatever its other arguments and whatever
\* the state.
C4_AlwaysDuplicateClaimError ==
    \A k \in Claimed, p \in Principals, l \in Leverages, r \in InsuranceRates :
        SubmitClaimRevert(k[1], k[2], p, l, r) = "Order already claimed"

\* C4 as amended: a submitClaim for an (owner, claimId) already claimed fails
\* whatever its other arguments -- with "Order already claimed" when the
\* modifiers before it pass (owner still whitelisted and not blacklisted, no
\* call in flight, not paused), with the modifier's error otherwise -- so
\* that a claimed pair stays claimed at the same position with the same
\* timestamp, and a step that appends a record appends exactly one, for a
\* pair not claimed before, leaving every stored record as it was.
C4_ResubmissionFails ==
    /\ [](\A k \in Claimed, p \in Principals, l \in Leverages,
             r \in InsuranceRates :
            LET e == SubmitClaimRevert(k[1], k[2], p, l, r) IN
            /\ e # OK
            /\ (whitelistedOnly(k[1]) = OK /\ ~locked /\ ~paused)
                 => e = "Order already claimed")
    /\ [][(claimedOrders' # claimedOrders \/ userPayouts' # userPayouts) =>
          /\ \A k \in Claimed :
              /\ isOrderClaimed(k[1], k[2])'
              /\ IndexOf(k[1], k[2])' = IndexOf(k[1], k[2])
              /\ ClaimRecord(k[1], k[2])'.orderId = k[2]
              /\ ClaimRecord(k[1], k[2])'.timestamp
                   = ClaimRecord(k[1], k[2]).timestamp
          /\ (\E u \in Address : Appends(u)) =>
              \E u \in Address, o \in OrderIds :
                 /\ ~isOrderClaimed(u, o)
                 /\ Claimed' = Claimed \cup {<<u, o>>}
                 /\ Len(Records(u))' = Len(Records(u)) + 1
                 /\ IndexOf(u, o)' = Len(Records(u))
                 /\ ClaimRecord(u, o)'.orderId = o
                 /\ \A k \in Claimed :
                       ClaimRecord(k[1], k[2])' = ClaimRecord(k[1], k[2])
                 /\ \A w \in Address \ {u} : Records(w)' = Records(w)]_vars

\* Claimant 3 has claimed order 1 and then order 2; time has passed and the
\* threshold has moved, so that a second submission of order 1 would carry
\* another amount and timestamp, and it is rejected as a duplicate.
C4_Witness ==
    /\ Len(Records(3)) = 2 /\ Records(3)[1].orderId = 1
    /\ Records(3)[1].timestamp < now
    /\ EstimatedPayout(1000, 50, 90, liquidationThreshold) # Records(3)[1].amount
    /\ SubmitClaimRevert(3, 1, 1000, 90, 50) = "Order already claimed"
    /\ SubmitClaimRevert(3, 1, 0, 80, 101) = "Order already claimed"

\* C7: a successful submitClaim(principal, leverage, insuranceRate) under the
\* threshold t stores floor(principal * insuranceRate * (leverage - t) /
\* 10000) as the amount of the new record, with verified = false, and a change
\* of the threshold changes no stored record.
C7_EstimateStored ==
    /\ [][\A u \in Address :
           Appends(u) =>
             LET rec == Records(u)'[Len(Records(u)')]
                 ev == events'[1] IN
             /\ ev.name = "ClaimSubmitted" /\ ev.user = u
             /\ rec.orderId = ev.orderId
             /\ rec.amount = (ev.principal * ev.insuranceRate
                               * (ev.leverage - liquidationThreshold)) \div 10000
             /\ rec.verified = FALSE]_vars
    /\ [][liquidationThreshold' # liquidationThreshold
            => userPayouts' = userPayouts]_vars

\* A claim submitted with (1000, 90, 50) under the threshold 80 holds the
\* amount 50 after the threshold has been moved to 85, under which the same
\* submission would be estimated at 25.
C7_Witness ==
    /\ isOrderClaimed(3, 1)
    /\ ClaimRecord(3, 1).amount = 50 /\ ~ClaimRecord(3, 1).verified
    /\ liquidationThreshold = 85
    /\ last = [op |-> "updateThreshold", status |-> "returned"]
    /\ EstimatedPayout(1000, 50, 90, liquidationThreshold) = 25

\* The checks of executePayout that come before the one on the verified flag.
PayoutChecksBeforeVerified(s, u) ==
    /\ onlyMultiSig(s) = OK /\ ~locked /\ ~paused
    /\ u \in whitelistedUsers /\ u \notin blacklistedUsers

\* C5 as stated: on a claim whose verified flag is false, executePayout
\* fails with "Not verified", whoever calls and whatever the state.
C5_AlwaysNotVerifiedError ==
    \A s \in Address, k \in Claimed :
        ~ClaimRecord(k[1], k[2]).verified
            => ExecutePayoutRevert(s, k[1], k[2]) = "Not verified"

\* C5 as amended: on a claim whose verified flag is false, executePayout
\* fails for every caller (so no payout starts and the ledger is not debited);
\* the failure is "Not verified" when the checks made before it pass.
C5_UnverifiedNeverPaid ==
    /\ [](\A s \in Address, k \in Claimed :
            ~ClaimRecord(k[1], k[2]).verified =>
                /\ ExecutePayoutRevert(s, k[1], k[2]) # OK
                /\ PayoutChecksBeforeVerified(s, k[1])
                     => ExecutePayoutRevert(s, k[1], k[2]) = "Not verified")
    /\ [][PayoutStarts => ClaimRecord(frame'.to, frame'.orderId).verified]_vars

\* An unverified claim of a whitelisted claimant with the ledger funded: only
\* the verified flag stands between a multi-sig wallet and the payout.
C5_Witness ==
    /\ isOrderClaimed(3, 1)
    /\ ~ClaimRecord(3, 1).verified
    /\ ClaimRecord(3, 1).amount > 0
    /\ ClaimRecord(3, 1).amount <= contractBalance
    /\ last.op = "updateVerification"
    /\ ExecutePayoutRevert(2, 3, 1) = "Not verified"

\* C6 as stated: while paused, submitClaim and executePayout fail with
\* "Contract paused", whoever calls and whatever the arguments.
C6_AlwaysPausedError ==
    paused =>
        /\ \A s \in Address, o \in OrderIds, p \in Principals, l \in Leverages,
              r \in InsuranceRates :
              SubmitClaimRevert(s, o, p, l, r) = "Contract paused"
        /\ \A s \in Address, u \in Address, o \in OrderIds :
              ExecutePayoutRevert(s, u, o) = "Contract paused"

\* C6 as amended: while paused, submitClaim and executePayout fail for every
\* caller and all arguments, with "Contract paused" when the modifiers that
\* run before whenNotPaused pass; no record is added and no payout starts
\* while paused; and once unpaused neither operation fails for the pause.
C6_PausedHalts ==
    /\ [](paused =>
            /\ \A s \in Address, o \in OrderIds, p \in Principals,
                  l \in Leverages, r \in InsuranceRates :
                  /\ SubmitClaimRevert(s, o, p, l, r) # OK
                  /\ (whitelistedOnly(s) = OK /\ ~locked)
                       => SubmitClaimRevert(s, o, p, l, r) = "Contract paused"
            /\ \A s \in Address, u \in Address, o \in OrderIds :
                  /\ ExecutePayoutRevert(s, u, o) # OK
                  /\ (onlyMultiSig(s) = OK /\ ~locked)
                       => ExecutePayoutRevert(s, u, o) = "Contract paused")
    /\ [](~paused =>
            /\ \A s \in Address, o \in OrderIds, p \in Principals,
                  l \in Leverages, r \in InsuranceRates :
                  SubmitClaimRevert(s, o, p, l, r) # "Contract paused"
            /\ \A s \in Address, u \in Address, o \in OrderIds :
                  ExecutePayoutRevert(s, u, o) # "Contract paused")
    /\ [][paused => (/\ claimedOrders' = claimedOrders
                     /\ \A u \in Address : Len(Records(u)') = Len(Records(u))
                     /\ ~PayoutStarts)]_vars

\* Paused with a verified, funded claim of a whitelisted claimant: the pause
\* alone stops the payout by wallet 2 and a new claim by claimant 3.
C6_Witness ==
    /\ paused
    /\ last.op = "pause"
    /\ isOrderClaimed(3, 1)
    /\ ClaimRecord(3, 1).verified
    /\ ClaimRecord(3, 1).amount > 0
    /\ ClaimRecord(3, 1).amount <= contractBalance
    /\ ExecutePayoutRevert(2, 3, 1) = "Contract paused"
    /\ SubmitClaimRevert(3, 2, 1000, 90, 50) = "Contract paused"

\* C8: a payout of a claim with recorded amount p under fee percentage f
\* sends p - floor(p * f / 100): that value leaves the contract, the ledger
\* is debited by exactly it (the fee stays), and the Payout event of the
\* completed payout carries it.
C8_NetTransfer ==
    [][/\ PayoutStarts =>
            LET p == ClaimRecord(frame'.to, frame'.orderId).amount
                fee == (p * feePercentage) \div 100 IN
            /\ frame'.value = p - fee
            /\ contractBalance' = contractBalance - (p - fee)
            /\ balance' = balance - (p - fee)
       /\ PayoutCompletes =>
            /\ events'[Len(events') - 1] =
                  [name |-> "Payout", user |-> frame.to, amount |-> frame.value]
            /\ contractBalance' = contractBalance
            /\ balance' = balance]_vars

\* The worked example has run: the claim of 1000 at leverage 90 and rate 50,
\* verified at rate 50, was paid 24 (fee 1) out of a ledger of 30.
C8_Witness ==
    /\ last = [op |-> "executePayout", status |-> "returned"]
    /\ feePercentage = 5
    /\ ClaimRecord(3, 1).amount = 25
    /\ events[1] = [name |-> "Payout", user |-> 3, amount |-> 24]
    /\ contractBalance = 6

C10_PaidIsImmutable ==
    [][\A k \in paid :
          /\ ClaimRecord(k[1], k[2])'.amount = ClaimRecord(k[1], k[2]).amount
          /\ ClaimRecord(k[1], k[2])'.verified = ClaimRecord(k[1], k[2]).verified]_vars

\* C11: when the transfer inside executePayout fails, the whole call is
\* rolled back: the frame of a payout holds the state and the log as they were
\* when executePayout was called, nothing done while the transfer is in flight
\* alters them, and the failure puts every state variable and the log back to
\* them (ledger, records, lock released), with no Payout emitted and the claim
\* not counted as paid.
C11_FailedTransferRollsBack ==
    /\ [][PayoutStarts => /\ frame'.saved = Snapshot
                          /\ frame'.log = events
                          /\ ~frame'.saved.locked]_vars
    /\ [][InFlight /\ InFlight' => /\ frame'.saved = frame.saved
                                   /\ frame'.log = frame.log]_vars
    /\ [][PayoutRolledBack =>
            /\ Snapshot' = frame.saved
            /\ contractBalance' = frame.saved.contractBalance
            /\ userPayouts' = frame.saved.userPayouts
            /\ locked' = FALSE
            /\ events' = frame.log
            /\ paid' = paid]_vars

\* A payout to claimant 3 out of a ledger of 30 has failed at the transfer: the
\* ledger is whole again, the record is still verified with its amount, the
\* lock is free and nothing counts as paid.
C11_Witness ==
    /\ last = [op |-> "executePayout", status |-> "reverted"]
    /\ contractBalance = 30 /\ balance = 30
    /\ ClaimRecord(3, 1).verified /\ ClaimRecord(3, 1).amount = 25
    /\ ~locked /\ paid = {}

\* A transaction reverted after its external call.
RolledBack == InFlight /\ frame' = NoFrame /\ last'.status = "reverted"
Roster == {multiSigWallets[i] : i \in 1..Len(multiSigWallets)}

\* C12: a failing operation is all-or-nothing.  A call whose requires fail is
\* no step at all, and a transaction that fails after its transfer puts the
\* state and the log back; so the lock is never left held, and every change
\* of the state is the complete effect of one call whose requires passed:
\* a duplicate marker comes with its record and from arguments submitClaim
\* accepts, a record is rewritten only by an accepted updateVerification, the
\* ledger is debited only by an accepted executePayout or withdraw, and the
\* parameters, the membership sets, the pause flag and the owner change only
\* in the operation that sets them, each leaving the rest of the state alone.
C12_AllOrNothing ==
    /\ [](~InFlight => ~locked)
    /\ [][RolledBack => Snapshot' = frame.saved /\ events' = frame.log]_vars
    /\ [][~RolledBack =>
          /\ Claimed \subseteq Claimed'
          /\ \A k \in Claimed' \ Claimed :
                /\ \E p \in Principals, l \in Leverages, r \in InsuranceRates :
                      SubmitClaimRevert(k[1], k[2], p, l, r) = OK
                /\ Len(Records(k[1]))' = Len(Records(k[1])) + 1
                /\ ClaimRecord(k[1], k[2])'.orderId = k[2]
                /\ last' = [op |-> "submitClaim", status |-> "returned"]
          /\ \A u \in Address :
                Len(Records(u))' # Len(Records(u))
                    => \E o \in OrderIds : <<u, o>> \in Claimed' \ Claimed
          /\ \A k \in Claimed :
                ClaimRecord(k[1], k[2])' # ClaimRecord(k[1], k[2]) =>
                    /\ last' = [op |-> "updateVerification", status |-> "returned"]
                    /\ \E s \in Address :
                          UpdateVerificationRevert(s, k[1], k[2]) = OK
          /\ contractBalance' < contractBalance =>
                /\ frame' # NoFrame /\ locked'
                /\ contractBalance' = contractBalance - frame'.value
                /\ \/ /\ frame'.op = "executePayout"
                      /\ ExecutePayoutRevert(frame'.sender, frame'.to,
                                             frame'.orderId) = OK
                   \/ /\ frame'.op = "withdraw"
                      /\ WithdrawRevert(frame'.sender, frame'.value) = OK
          /\ contractBalance' > contractBalance =>
                /\ last' = [op |-> "addFunds", status |-> "returned"]
                /\ events'[1].owner = owner
          /\ liquidationThreshold' # liquidationThreshold =>
                /\ last' = [op |-> "updateThreshold", status |-> "returned"]
                /\ events'[2].executor \in Roster
          /\ feePercentage' # feePercentage =>
                /\ last' = [op |-> "updateFee", status |-> "returned"]
                /\ events'[2].executor \in Roster
          /\ whitelistedUsers' # whitelistedUsers =>
                last' \in [op : {"addToWhitelist", "removeFromWhitelist"},
                           status : {"returned"}]
          /\ blacklistedUsers' # blacklistedUsers =>
                last' \in [op : {"addToBlacklist", "removeFromBlacklist"},
                           status : {"returned"}]
          /\ paused' # paused =>
                /\ last' \in [op : {"pause", "unpause"}, status : {"returned"}]
                /\ events'[1].admin = owner
          /\ owner' # owner =>
                /\ last' = [op |-> "transferOwnership", status |-> "returned"]
                /\ owner' # ZeroAddress
          /\ locked' # locked => (frame' # NoFrame) # (frame # NoFrame)]_vars

\* A withdrawal by wallet 2 has failed at its transfer after the ownership
\* had passed to 4: the ledger and the lock are as before it, and calls
\* with failing arguments are rejected in this state.
C12_Witness ==
    /\ last = [op |-> "withdraw", status |-> "reverted"]
    /\ owner = 4
    /\ contractBalance = 30 /\ balance = 30 /\ ~locked
    /\ isOrderClaimed(3, 1)
    /\ SubmitClaimRevert(3, 1, 1000, 90, 50) = "Order already claimed"
    /\ WithdrawRevert(2, 61) = "Insufficient contract balance"
    /\ ExecutePayoutRevert(4, 3, 1) = "Not multi-sig wallet"

\* C13: the blacklist overrides the whitelist.  For an identity that is
\* blacklisted (whitelisted or not, in whichever order it entered the sets)
\* or that is not whitelisted, every submitClaim by it and every
\* executePayout for it fails; a record is appended and a payout starts only
\* for an identity that is whitelisted and not blacklisted.
C13_BlacklistOverrides ==
    /\ [](\A u \in Address :
            (u \in blacklistedUsers \/ u \notin whitelistedUsers) =>
                /\ \A o \in OrderIds, p \in Principals, l \in Leverages,
                      r \in InsuranceRates : SubmitClaimRevert(u, o, p, l, r) # OK
                /\ \A s \in Address, o \in OrderIds :
                      ExecutePayoutRevert(s, u, o) # OK)
    /\ [][/\ \A u \in Address :
              Appends(u) => u \in whitelistedUsers \ blacklistedUsers
          /\ PayoutStarts => frame'.to \in whitelistedUsers \ blacklistedUsers]_vars

\* Claimant 3 was blacklisted and whitelisted after that; it is in both sets,
\* its verified claim is funded, and the payout and a new claim are refused
\* for the blacklist alone.
C13_Witness ==
    /\ last = [op |-> "addToWhitelist", status |-> "returned"]
    /\ 3 \in whitelistedUsers /\ 3 \in blacklistedUsers
    /\ ~paused
    /\ isOrderClaimed(3, 1) /\ ClaimRecord(3, 1).verified
    /\ ClaimRecord(3, 1).amount > 0
    /\ ClaimRecord(3, 1).amount <= contractBalance
    /\ ExecutePayoutRevert(2, 3, 1) = "User is blacklisted"
    /\ SubmitClaimRevert(3, 2, 1000, 90, 50) = "User is blacklisted"

MembershipOps ==
    {"addToWhitelist", "removeFromWhitelist", "addToBlacklist", "removeFromBlacklist"}

\* C14: the four membership operations are the owner's.  Called by anyone
\* but the current owner each fails with "Not owner"; called by the owner
\* each is accepted (addToWhitelist for a non-zero address); the two sets
\* change in no other operation; and an accepted call adds or removes the one
\* identity it names in the one set it is for, and changes nothing else of
\* the state.
C14_MembershipOwnerOnly ==
    /\ [](\A s \in Address \ {owner}, u \in Address :
            /\ onlyOwner(s) = "Not owner"
            /\ AddToWhitelistRevert(s, u) = "Not owner")
    /\ [](/\ onlyOwner(owner) = OK
          /\ \A u \in Address \ {ZeroAddress} : AddToWhitelistRevert(owner, u) = OK)
    /\ [][~RolledBack =>
          /\ (whitelistedUsers' # whitelistedUsers
                 \/ blacklistedUsers' # blacklistedUsers)
                => last'.op \in MembershipOps
          /\ last'.op \in MembershipOps =>
                LET u == events'[1].user IN
                /\ last'.status = "returned"
                /\ whitelistedUsers' =
                      CASE last'.op = "addToWhitelist" -> whitelistedUsers \cup {u}
                        [] last'.op = "removeFromWhitelist" -> whitelistedUsers \ {u}
                        [] OTHER -> whitelistedUsers
                /\ blacklistedUsers' =
                      CASE last'.op = "addToBlacklist" -> blacklistedUsers \cup {u}
                        [] last'.op = "removeFromBlacklist" -> blacklistedUsers \ {u}
                        [] OTHER -> blacklistedUsers
                /\ u # ZeroAddress \/ last'.op # "addToWhitelist"
                /\ UNCHANGED <<owner, liquidationThreshold, feePercentage,
                               contractBalance, locked, paused, multiSigWallets,
                               minSignatures, userPayouts, claimedOrders, balance,
                               paid>>]_vars

\* The ownership has passed to 4, who has blacklisted claimant 3 while its
\* claim stands and the ledger is funded; the deployer, owner no longer, is
\* refused.
C14_Witness ==
    /\ owner = 4
    /\ last = [op |-> "addToBlacklist", status |-> "returned"]
    /\ blacklistedUsers = {3} /\ whitelistedUsers = {3}
    /\ isOrderClaimed(3, 1) /\ contractBalance = 30
    /\ AddToWhitelistRevert(Deployer, 3) = "Not owner"
    /\ onlyOwner(2) = "Not owner"

\* C15: the parameters stay in their bounds.  In every state 0 <
\* liquidationThreshold < 100, 0 <= feePercentage <= 5 and minSignatures >= 1;
\* updateThreshold, updateFee and updateMinSignatures with a value outside the
\* bounds fail whoever calls, and a parameter changes only in its own
\* operation, to the in-bounds value passed.
C15_ParametersBounded ==
    /\ [](/\ 0 < liquidationThreshold /\ liquidationThreshold < 100
          /\ 0 <= feePercentage /\ feePercentage <= 5
          /\ minSignatures >= 1)
    /\ [](\A s \in Address :
            /\ \A t \in ThresholdValues :
                  ~(0 < t /\ t < 100) => UpdateThresholdRevert(s, t) # OK
            /\ \A f \in FeeValues : f > 5 => UpdateFeeRevert(s, f) # OK
            /\ \A m \in MinSignatureValues :
                  (m < 1 \/ m > Len(multiSigWallets))
                      => UpdateMinSignaturesRevert(s, m) # OK)
    /\ [][/\ liquidationThreshold' # liquidationThreshold =>
                /\ last'.op = "updateThreshold"
                /\ events'[1] = [name |-> "ThresholdUpdated",
                                 newThreshold |-> liquidationThreshold']
          /\ feePercentage' # feePercentage =>
                /\ last'.op = "updateFee"
                /\ events'[1] = [name |-> "FeeUpdated", newFee |-> feePercentage']
          /\ minSignatures' # minSignatures =>
                /\ last'.op = "updateMinSignatures"
                /\ minSignatures' <= Len(multiSigWallets)]_vars

\* Each parameter has been moved to a bound it may take (threshold 99, fee 0,
\* one signature) and the next value beyond each bound is refused to the
\* wallet and to the owner.
C15_Witness ==
    /\ liquidationThreshold = 99 /\ feePercentage = 0 /\ minSignatures = 1
    /\ UpdateThresholdRevert(2, 100) = "Invalid threshold"
    /\ UpdateThresholdRevert(2, 0) = "Invalid threshold"
    /\ UpdateFeeRevert(2, 6) = "Invalid fee"
    /\ UpdateMinSignaturesRevert(owner, 0) = "Invalid min signatures"
    /\ UpdateMinSignaturesRevert(owner, 4) = "Invalid min signatures"

WithdrawStarts == ~InFlight /\ frame'.op = "withdraw"

\* C17 as stated: contractBalance is changed only by executePayout, which
\* lowers it, and by addFunds, which raises it (and by the rollback of a
\* transaction that had changed it).
C17_OnlyPayoutAndAddFunds ==
    [][contractBalance' # contractBalance =>
          \/ PayoutStarts /\ contractBalance' < contractBalance
          \/ /\ last' = [op |-> "addFunds", status |-> "returned"]
             /\ contractBalance' > contractBalance
          \/ RolledBack]_vars

\* C17 as amended: contractBalance is lowered by executePayout and by
\* withdraw, each by the value it sends, at the moment it sends it; raised
\* by addFunds and by a plain transfer to the contract (receive), each by the
\* value received; set to the ether the contract holds by syncBalance; and
\* restored by the rollback of a failed transfer.  Nothing else changes it.
C17_LedgerWriters ==
    [][contractBalance' # contractBalance =>
          \/ /\ PayoutStarts \/ WithdrawStarts
             /\ contractBalance' = contractBalance - frame'.value
             /\ balance' = balance - frame'.value
          \/ /\ last' \in [op : {"addFunds", "receive"}, status : {"returned"}]
             /\ contractBalance' > contractBalance
             /\ balance' - balance = contractBalance' - contractBalance
          \/ /\ last' = [op |-> "syncBalance", status |-> "returned"]
             /\ contractBalance' = balance /\ balance' = balance
          \/ /\ RolledBack
             /\ contractBalance' = frame.saved.contractBalance]_vars

\* The ledger has been written by the operations the statement leaves out:
\* after ether had reached the contract unrecorded, syncBalance raised
\* contractBalance to it, with no addFunds and no payout ever made.
C17_Witness ==
    /\ last = [op |-> "syncBalance", status |-> "returned"]
    /\ contractBalance = 6 /\ balance = 6
    /\ events = <<[name |-> "BalanceSynced", newBalance |-> 6]>>
    /\ paid = {}

\* C18: a settlement that fails leaves the claim verified and retryable.  On
\* a verified claim with a positive amount, for a wallet of the roster and a
\* claimant in good standing, executePayout is refused for "Insufficient
\* contract balance" exactly while the amount exceeds the ledger; an addFunds
\* that brings the ledger up to the amount leaves the record as it is and
\* makes the same call pass its requires; and after a transfer that failed the
\* record is verified with its amount and the same call passes again.
C18_RetryAfterFunding ==
    /\ [](\A s \in Address, k \in Claimed :
            (/\ PayoutChecksBeforeVerified(s, k[1])
             /\ ClaimRecord(k[1], k[2]).verified
             /\ ClaimRecord(k[1], k[2]).amount > 0) =>
                ExecutePayoutRevert(s, k[1], k[2]) =
                    IF ClaimRecord(k[1], k[2]).amount <= contractBalance
                    THEN OK ELSE "Insufficient contract balance")
    /\ [][\A s \in Address, k \in Claimed :
            (/\ last' = [op |-> "addFunds", status |-> "returned"]
             /\ ExecutePayoutRevert(s, k[1], k[2]) = "Insufficient contract balance"
             /\ contractBalance + events'[1].amount
                   >= ClaimRecord(k[1], k[2]).amount) =>
                /\ ClaimRecord(k[1], k[2])' = ClaimRecord(k[1], k[2])
                /\ ExecutePayoutRevert(s, k[1], k[2])' = OK]_vars
    /\ [][PayoutRolledBack =>
          \A s \in {frame.sender}, k \in {<<frame.to, frame.orderId>>} :
                /\ ClaimRecord(k[1], k[2])'.verified
                /\ ClaimRecord(k[1], k[2])'
                     = frame.saved.userPayouts[k[1]].records[
                           frame.saved.userPayouts[k[1]].orderIdToIndex[k[2]] + 1]
                /\ ExecutePayoutRevert(s, k[1], k[2])' = OK]_vars

\* The claim was verified while the ledger was empty, so that its payout was
\* refused for the balance; the owner has now added 30 and the same call by
\* wallet 2 passes.
C18_Witness ==
    /\ last = [op |-> "addFunds", status |-> "returned"]
    /\ contractBalance = events[1].amount
    /\ isOrderClaimed(3, 1) /\ ClaimRecord(3, 1).verified
    /\ ClaimRecord(3, 1).amount = 25
    /\ paid = {}
    /\ ExecutePayoutRevert(2, 3, 1) = OK

\* The positions of getUserPayouts(u) that hold a record of order o.
Listed(u, o) == {i \in 1..Len(getUserPayouts(u)) : getUserPayouts(u)[i].orderId = o}

\* C19: the two queries agree with the submissions.  In every state, paused
\* or not, isOrderClaimed(u, o) holds exactly when getUserPayouts(u) lists
\* one record of order o, and never lists two; a pair becomes claimed in the
\* step of an accepted submitClaim for it and in no other, and stays claimed;
\* and getUserPayouts(u) is in submission order: a submission is added at the
\* end, the records before it keep their places, and the timestamps do not
\* decrease along the list.
C19_QueriesAgree ==
    /\ [](\A u \in Address, o \in OrderIds :
            /\ isOrderClaimed(u, o) <=> Cardinality(Listed(u, o)) = 1
            /\ Cardinality(Listed(u, o)) <= 1)
    /\ [](\A u \in Address :
            /\ Len(getUserPayouts(u)) = Cardinality({o \in OrderIds : isOrderClaimed(u, o)})
            /\ \A i, j \in 1..Len(getUserPayouts(u)) :
                  i < j => getUserPayouts(u)[i].timestamp
                             <= getUserPayouts(u)[j].timestamp)
    /\ [][(claimedOrders' # claimedOrders \/ userPayouts' # userPayouts
            \/ events' # events) =>
          /\ Claimed \subseteq Claimed'
          /\ \A u \in Address, o \in OrderIds :
                (isOrderClaimed(u, o)' /\ ~isOrderClaimed(u, o)) <=>
                    (/\ events' # events /\ Len(events') > 0
                     /\ events'[1].name = "ClaimSubmitted"
                     /\ events'[1].user = u /\ events'[1].orderId = o)
          /\ \A u \in Address :
                /\ Len(getUserPayouts(u))' >= Len(getUserPayouts(u))
                /\ \A i \in 1..Len(getUserPayouts(u)) :
                      getUserPayouts(u)'[i].orderId = getUserPayouts(u)[i].orderId
                /\ Appends(u) =>
                      /\ getUserPayouts(u)'[Len(getUserPayouts(u))'].orderId
                           = events'[1].orderId
                      /\ getUserPayouts(u)'[Len(getUserPayouts(u))'].timestamp = now]_vars

\* While paused the queries answer: claimant 3 submitted order 2 and then, in
\* a later block, order 1, and is listed in that order; claimant 4 submitted
\* order 1 only.
C19_Witness ==
    /\ paused
    /\ isOrderClaimed(3, 1) /\ isOrderClaimed(3, 2)
    /\ isOrderClaimed(4, 1) /\ ~isOrderClaimed(4, 2)
    /\ Len(getUserPayouts(3)) = 2 /\ Len(getUserPayouts(4)) = 1
    /\ getUserPayouts(3)[1].orderId = 2 /\ getUserPayouts(3)[2].orderId = 1
    /\ getUserPayouts(3)[1].timestamp < getUserPayouts(3)[2].timestamp

\* C20: checks-effects-interactions in executePayout.  When the transfer is
\* attempted the ledger has been checked and debited by the net amount and
\* the claim has been marked paid: the call has written the claim's stored
\* state (its record or its marker), so that a call made during the transfer
\* sees the claim as after the payout.
C20_EffectsBeforeInteraction ==
    [][PayoutStarts =>
          /\ frame'.value <= contractBalance
          /\ contractBalance' = contractBalance - frame'.value
          /\ \/ userPayouts'[frame'.to] # userPayouts[frame'.to]
             \/ claimedOrders' # claimedOrders]_vars

\* C21: the sufficiency check of executePayout is on the net transfer.  With
\* every other precondition satisfied (wallet of the roster, lock free, not
\* paused, claimant in good standing, claim verified with a positive amount),
\* executePayout is accepted exactly when the amount less the fee is within
\* the ledger, and refused for "Insufficient contract balance" exactly when it
\* is not.
C21_NetSufficiency ==
    \A s \in Address, k \in Claimed :
        (/\ PayoutChecksBeforeVerified(s, k[1])
         /\ ClaimRecord(k[1], k[2]).verified
         /\ ClaimRecord(k[1], k[2]).amount > 0) =>
            LET net == NetPayout(ClaimRecord(k[1], k[2]).amount, feePercentage) IN
            ExecutePayoutRevert(s, k[1], k[2]) =
                IF net <= contractBalance THEN OK
                ELSE "Insufficient contract balance"

\* C22 as stated: when several preconditions of executePayout are violated the
\* error is that of the first violated one in the order: caller on the roster;
\* claimant whitelisted and not blacklisted; claim present and verified;
\* not paused; lock free.  (The errors a missing claim gives are accepted for
\* the third, and the check on a paid claim, which the code has not, is left
\* out.)
C22_StatedOrder ==
    \A s \in Address, u \in Address, o \in OrderIds :
        LET e == ExecutePayoutRevert(s, u, o) IN
        IF s \notin Roster THEN e = "Not multi-sig wallet"
        ELSE IF u \notin whitelistedUsers \/ u \in blacklistedUsers
             THEN e \in {"User not whitelisted", "User is blacklisted"}
        ELSE IF ~isOrderClaimed(u, o) \/ ~ClaimRecord(u, o).verified
             THEN e \in {"Order not claimed", "Not verified"}
        ELSE IF paused THEN e = "Contract paused"
        ELSE IF locked THEN e = "Reentrant call"
        ELSE TRUE

\* C22 as amended: the error of executePayout is that of the first violated
\* precondition in the order of the code: caller on the roster; lock free;
\* not paused; claimant whitelisted; claimant not blacklisted; claim present;
\* claim verified; amount positive; amount within the ledger.
C22_CodeOrder ==
    \A s \in Address, u \in Address, o \in OrderIds :
        ExecutePayoutRevert(s, u, o) =
            IF s \notin Roster THEN "Not multi-sig wallet"
            ELSE IF locked THEN "Reentrant call"
            ELSE IF paused THEN "Contract paused"
            ELSE IF u \notin whitelistedUsers THEN "User not whitelisted"
            ELSE IF u \in blacklistedUsers THEN "User is blacklisted"
            ELSE IF ~isOrderClaimed(u, o) THEN "Order not claimed"
            ELSE IF ~ClaimRecord(u, o).verified THEN "Not verified"
            ELSE IF ClaimRecord(u, o).amount = 0 THEN "Invalid payout amount"
            ELSE IF ClaimRecord(u, o).amount > contractBalance
                 THEN "Insufficient contract balance"
            ELSE OK

\* Four preconditions are violated at once -- the system is paused, claimant
\* 3 is blacklisted, its claim is unverified and the ledger is empty -- and
\* the wallet is told of the pause, the outsider of the roster.
C22_Witness ==
    /\ paused /\ 3 \in whitelistedUsers /\ 3 \in blacklistedUsers
    /\ isOrderClaimed(3, 1) /\ ~ClaimRecord(3, 1).verified
    /\ ClaimRecord(3, 1).amount > contractBalance
    /\ ExecutePayoutRevert(2, 3, 1) = "Contract paused"
    /\ ExecutePayoutRevert(4, 3, 1) = "Not multi-sig wallet"

\* C23: an accepted updateVerification(user, orderId, .., insuranceRate,
\* verified) on a claim not yet paid replaces the amount of that claim's record
\* by floor(amount before the call * insuranceRate / 100) and its flag by
\* verified, reports the new amount in its PayoutVerified event, and changes
\* nothing else of the record nor any other record; it can be repeated, each
\* call working on the amount the one before left.
C23_VerificationOverwrites ==
    [][(last' = [op |-> "updateVerification", status |-> "returned"]
          /\ <<events'[1].user, events'[1].orderId>> \notin paid) =>
          LET ev == events'[1] IN
          /\ ev.name = "PayoutVerified"
          /\ isOrderClaimed(ev.user, ev.orderId)
          /\ \A k \in Claimed :
                ClaimRecord(k[1], k[2])' =
                    IF k = <<ev.user, ev.orderId>>
                    THEN [orderId |-> ClaimRecord(k[1], k[2]).orderId,
                          timestamp |-> ClaimRecord(k[1], k[2]).timestamp,
                          amount |-> (ClaimRecord(k[1], k[2]).amount
                                        * ev.insuranceRate) \div 100,
                          verified |-> ev.verified]
                    ELSE ClaimRecord(k[1], k[2])
          /\ \A k \in Claimed :
                k = <<ev.user, ev.orderId>>
                    => ev.payoutAmount = ClaimRecord(k[1], k[2])'.amount
          /\ Claimed' = Claimed]_vars

\* The claim of 50 has been verified twice at rate 50 and stands at 12, the
\* 25 of the first verification being kept nowhere; it is not yet paid.
C23_Witness ==
    /\ last = [op |-> "updateVerification", status |-> "returned"]
    /\ ClaimRecord(3, 1) = [orderId |-> 1, amount |-> 12, timestamp |-> 0,
                            verified |-> TRUE]
    /\ events[1].payoutAmount = 12 /\ events[1].insuranceRate = 50
    /\ paid = {}

\* C24 as stated: updateVerification for a pair that was never submitted fails
\* with "Order not claimed", whoever calls and whatever the state.
C24_AlwaysNotFoundError ==
    \A s \in Address, u \in Address, o \in OrderIds :
        ~isOrderClaimed(u, o) => UpdateVerificationRevert(s, u, o) = "Order not claimed"

\* C24 as amended: updateVerification is accepted exactly when the caller is
\* on the roster, the system is not paused and the pair has been submitted;
\* for a pair never submitted it fails for every caller, with "Order not
\* claimed" when the caller is on the roster and the system is not paused;
\* and a record is rewritten only by an accepted call on its own pair, which
\* creates no record.
C24_VerificationPreconditions ==
    /\ [](\A s \in Address, u \in Address, o \in OrderIds :
            /\ UpdateVerificationRevert(s, u, o) = OK
                 <=> (s \in Roster /\ ~paused /\ isOrderClaimed(u, o))
            /\ ~isOrderClaimed(u, o) =>
                  /\ UpdateVerificationRevert(s, u, o) # OK
                  /\ (s \in Roster /\ ~paused)
                       => UpdateVerificationRevert(s, u, o) = "Order not claimed")
    /\ [][userPayouts' # userPayouts =>
          /\ \A k \in Claimed :
                ClaimRecord(k[1], k[2])' # ClaimRecord(k[1], k[2]) =>
                    /\ last' = [op |-> "updateVerification", status |-> "returned"]
                    /\ events'[1].user = k[1] /\ events'[1].orderId = k[2]
                    /\ events'[2].executor \in Roster
                    /\ ~paused
          /\ (\E k \in Claimed : ClaimRecord(k[1], k[2])' # ClaimRecord(k[1], k[2]))
                => (Claimed' = Claimed /\ \A u \in Address : ~Appends(u))]_vars

\* Order 1 of claimant 3 has been verified by wallet 2; the same wallet is
\* told that order 2 of claimant 3 and order 1 of claimant 4, never submitted,
\* are not claimed.
C24_Witness ==
    /\ last = [op |-> "updateVerification", status |-> "returned"]
    /\ isOrderClaimed(3, 1) /\ ClaimRecord(3, 1).verified
    /\ ~isOrderClaimed(3, 2) /\ ~isOrderClaimed(4, 1)
    /\ UpdateVerificationRevert(2, 3, 2) = "Order not claimed"
    /\ UpdateVerificationRevert(2, 4, 1) = "Order not claimed"
    /\ Len(Records(4)) = 0

\* What the statement of submitClaim lists as its conditions.
SubmitConditions(s, o, p, l, r) ==
    /\ s \in whitelistedUsers /\ s \notin blacklistedUsers
    /\ ~paused
    /\ p > 0 /\ l > liquidationThreshold
    /\ r > 0 /\ r <= 100
    /\ ~isOrderClaimed(s, o)

\* C25 as stated: submitClaim is accepted exactly when the caller is
\* whitelisted and not blacklisted, the system is not paused, principal > 0,
\* leverage > threshold, 0 < insuranceRate <= 100 and the pair is not claimed.
C25_ListedConditionsSuffice ==
    \A s \in Address, o \in OrderIds, p \in Principals, l \in Leverages,
       r \in InsuranceRates :
        SubmitClaimRevert(s, o, p, l, r) = OK <=> SubmitConditions(s, o, p, l, r)

\* C25 as amended: submitClaim is accepted exactly when the listed conditions
\* hold and the reentrancy lock is free; and a step that claims a pair claims
\* one pair, for a caller and arguments that satisfy those conditions, appends
\* exactly one unverified record for it to the caller's list, leaves every
\* other record alone and emits ClaimSubmitted with the arguments.
C25_SubmitPreconditions ==
    /\ [](\A s \in Address, o \in OrderIds, p \in Principals, l \in Leverages,
             r \in InsuranceRates :
            SubmitClaimRevert(s, o, p, l, r) = OK
              <=> (SubmitConditions(s, o, p, l, r) /\ ~locked))
    /\ [][(claimedOrders' # claimedOrders \/ userPayouts' # userPayouts) =>
          /\ (\E u \in Address : Appends(u)) => Claimed' # Claimed
          /\ Claimed' # Claimed =>
                \E s \in Address, o \in OrderIds :
                    LET ev == events'[1] IN
                    /\ <<s, o>> \notin Claimed
                    /\ Claimed' = Claimed \cup {<<s, o>>}
                    /\ last' = [op |-> "submitClaim", status |-> "returned"]
                    /\ ev.name = "ClaimSubmitted" /\ ev.user = s /\ ev.orderId = o
                    /\ SubmitConditions(s, o, ev.principal, ev.leverage, ev.insuranceRate)
                    /\ ~locked
                    /\ Records(s)' =
                          Append(Records(s),
                                 [orderId |-> o,
                                  amount |-> EstimatedPayout(ev.principal, ev.insuranceRate,
                                                             ev.leverage, liquidationThreshold),
                                  timestamp |-> now, verified |-> FALSE])
                    /\ \A u \in Address \ {s} : Records(u)' = Records(u)]_vars

\* Claimant 3, whitelisted, has submitted order 1 at threshold 85: one record
\* of 25, unverified, and ClaimSubmitted in the log.
C25_Witness ==
    /\ last = [op |-> "submitClaim", status |-> "returned"]
    /\ liquidationThreshold = 85
    /\ Claimed = {<<3, 1>>}
    /\ Records(3) = <<[orderId |-> 1, amount |-> 25, timestamp |-> now, verified |-> FALSE]>>
    /\ events[1].name = "ClaimSubmitted" /\ events[1].user = 3 /\ events[1].orderId = 1

\* C26: every change of the threshold, the fee, the quorum size, the owner or
\* the pause flag appends a record carrying the new value to the log of its
\* transaction, and the owner's operations are the act of the owner, the
\* multi-sig ones of a wallet on the roster.
C26_GovernanceLogged ==
    [][/\ liquidationThreshold' # liquidationThreshold =>
            /\ Len(events') > 0
            /\ events'[1] = [name |-> "ThresholdUpdated",
                             newThreshold |-> liquidationThreshold']
            /\ events'[2].executor \in Roster
       /\ feePercentage' # feePercentage =>
            /\ Len(events') > 0
            /\ events'[1] = [name |-> "FeeUpdated", newFee |-> feePercentage']
            /\ events'[2].executor \in Roster
       /\ minSignatures' # minSignatures =>
            /\ Len(events') > 0
            /\ \E i \in 1..Len(events') : \E f \in DOMAIN events'[i] :
                  events'[i][f] = minSignatures'
       /\ owner' # owner =>
            /\ Len(events') > 0
            /\ events'[1] = [name |-> "OwnerChanged", newOwner |-> owner']
       /\ paused' # paused =>
            /\ Len(events') > 0
            /\ events'[1] = [name |-> IF paused' THEN "ContractPaused"
                                      ELSE "ContractUnpaused",
                             admin |-> owner]]_vars

\* The ledger when the transaction now ending began.
LedgerBefore == IF InFlight THEN frame.saved.contractBalance ELSE contractBalance

\* C27: the log is enough to replay the state.  A transaction that leaves the
\* ledger different from what it found has logged a record that gives the
\* difference (FundsAdded, Withdrawal, Payout) or the new balance
\* (BalanceSynced), and one that changes a claim record has logged a
\* PayoutVerified with the record's new amount and verified flag.
C27_ReplayDeterminesState ==
    [][/\ (~InFlight' /\ contractBalance' # LedgerBefore) =>
            /\ Len(events') > 0
            /\ LET ev == events'[1]
                   d == contractBalance' - LedgerBefore IN
               \/ ev.name = "FundsAdded" /\ d = ev.amount
               \/ ev.name = "Withdrawal" /\ d = 0 - ev.amount
               \/ ev.name = "Payout" /\ d = 0 - ev.amount
               \/ ev.name = "BalanceSynced" /\ contractBalance' = ev.newBalance
       /\ (~InFlight /\ userPayouts' # userPayouts) =>
            /\ Len(events') > 0
            /\ \E i \in 1..Len(events') :
                  /\ events'[i].name = "PayoutVerified"
                  /\ \A k \in Claimed' :
                        k = <<events'[i].user, events'[i].orderId>> =>
                            /\ ClaimRecord(k[1], k[2])'.amount = events'[i].payoutAmount
                            /\ ClaimRecord(k[1], k[2])'.verified = events'[i].verified
            /\ \A k \in Claimed :
                  ClaimRecord(k[1], k[2])' # ClaimRecord(k[1], k[2]) =>
                      <<events'[1].user, events'[1].orderId>> = k]_vars

\* C28 as stated: while the system is paused no step changes a claim record,
\* the ledger balance, the parameters or the membership sets.
C28_GlobalHalt ==
    [][paused =>
          UNCHANGED <<userPayouts, claimedOrders, contractBalance,
                      liquidationThreshold, feePercentage, minSignatures,
                      whitelistedUsers, blacklistedUsers, multiSigWallets>>]_vars

\* C28 as amended: while paused, every submitClaim, updateVerification and
\* executePayout is refused, so no claim is created, no record changes and no
\* payout starts, and a plain receipt is refused, so the ledger changes only
\* by addFunds, syncBalance or withdraw, which like the parameter and
\* membership operations do not look at the pause flag.
C28_GatedOperationsHalt ==
    /\ [](paused =>
            \A s \in Address, u \in Address, o \in OrderIds :
                /\ UpdateVerificationRevert(s, u, o) # OK
                /\ ExecutePayoutRevert(s, u, o) # OK
                /\ \A p \in Principals, l \in Leverages, r \in InsuranceRates :
                      SubmitClaimRevert(s, o, p, l, r) # OK)
    /\ [][paused =>
          /\ UNCHANGED <<userPayouts, claimedOrders, paid>>
          /\ frame'.op # "executePayout"
          /\ contractBalance' # contractBalance =>
                \/ /\ Len(events') > 0
                   /\ \/ events'[1] = [name |-> "FundsAdded", owner |-> owner,
                                        amount |-> contractBalance' - contractBalance]
                      \/ events'[1] = [name |-> "BalanceSynced",
                                        newBalance |-> contractBalance']
                   /\ last'.op \in {"addFunds", "syncBalance"}
                \/ /\ ~InFlight /\ frame'.op = "withdraw"
                   /\ contractBalance' = contractBalance - frame'.value
                \/ /\ InFlight /\ frame.op = "withdraw" /\ RolledBack]_vars

\* Paused with the claim of claimant 3 verified and covered by the ledger:
\* wallet 2's settlement and a second submission by 3 are refused for the
\* pause, while the owner's addFunds, made after the pause, has gone through.
C28_Witness ==
    /\ paused
    /\ last = [op |-> "addFunds", status |-> "returned"]
    /\ events = <<[name |-> "FundsAdded", owner |-> 1, amount |-> 30]>>
    /\ contractBalance = 30
    /\ isOrderClaimed(3, 1)
    /\ ClaimRecord(3, 1).verified /\ ClaimRecord(3, 1).amount <= contractBalance
    /\ ExecutePayoutRevert(2, 3, 1) = "Contract paused"
    /\ UpdateVerificationRevert(2, 3, 1) = "Contract paused"
    /\ SubmitClaimRevert(3, 2, 1000, 90, 50) = "Contract paused"

\* C29: there is no rejection or deletion path.  A claimed pair stays
\* claimed and keeps its position; no list of records gets shorter; a record
\* keeps its place, its orderId and its timestamp; and its amount or verified
\* flag changes only in an accepted updateVerification for its own pair, so a
\* record that is never verified stays unverified.
C29_NoDeletion ==
    [][(claimedOrders' # claimedOrders \/ userPayouts' # userPayouts) =>
          /\ Claimed \subseteq Claimed'
          /\ \A k \in Claimed : IndexOf(k[1], k[2])' = IndexOf(k[1], k[2])
          /\ \A u \in Address :
                /\ Len(Records(u))' >= Len(Records(u))
                /\ \A i \in 1..Len(Records(u)) :
                      /\ Records(u)'[i].orderId = Records(u)[i].orderId
                      /\ Records(u)'[i].timestamp = Records(u)[i].timestamp
                      /\ Records(u)'[i] # Records(u)[i] =>
                            /\ last' = [op |-> "updateVerification",
                                        status |-> "returned"]
                            /\ events'[1].name = "PayoutVerified"
                            /\ events'[1].user = u
                            /\ events'[1].orderId = Records(u)[i].orderId]_vars

\* Claimant 3 submitted order 2 and, later, order 1; order 1 has been verified
\* and paid and 3 has since been blacklisted, while order 2, never verified,
\* is still first in the list, unverified, with its amount and timestamp.
C29_Witness ==
    /\ last = [op |-> "addToBlacklist", status |-> "returned"]
    /\ Len(Records(3)) = 2
    /\ Records(3)[1] = [orderId |-> 2, amount |-> 50, timestamp |-> 0, verified |-> FALSE]
    /\ Records(3)[2].orderId = 1 /\ Records(3)[2].timestamp = 1
    /\ Records(3)[2].verified
    /\ <<3, 1>> \in paid
    /\ isOrderClaimed(3, 1) /\ isOrderClaimed(3, 2)

\* C30: accounting matches custody.  With funds entering only through
\* addFunds and receive, between transactions the recorded contractBalance is
\* the ether the contract holds, so verifyBalance() is true, and a syncBalance
\* never changes contractBalance.
C30_AccountingMatchesCustody ==
    /\ [](~InFlight => (verifyBalance /\ contractBalance = getContractBalance))
    /\ [][last'.op = "syncBalance" => contractBalance' = contractBalance]_vars

\* After funding by 30 and the payout of 24 to claimant 3 the owner has
\* called syncBalance: it logged the 6 that the ledger already showed.
C30_Witness ==
    /\ last = [op |-> "syncBalance", status |-> "returned"]
    /\ events = <<[name |-> "BalanceSynced", newBalance |-> 6]>>
    /\ paid = {<<3, 1>>}
    /\ contractBalance = 6 /\ getContractBalance = 6 /\ verifyBalance

\* C31: while the transfer of an executePayout or a withdraw is in flight, no
\* nested call changes a claim record, the fee, the threshold, the membership
\* sets or the ledger balance.
C31_NothingChangesInFlight ==
    [][(InFlight /\ InFlight') =>
          UNCHANGED <<userPayouts, claimedOrders, feePercentage, liquidationThreshold,
                      whitelistedUsers, blacklistedUsers, multiSigWallets,
                      contractBalance>>]_vars

\* C32: the recorded amount of a claim never exceeds the estimate computed
\* at its submission (here 1000 * 20 * (90 - threshold) / 10000), so no
\* settlement pays more than that estimate.
C32_AmountWithinEstimate ==
    /\ \A k \in Claimed :
          ClaimRecord(k[1], k[2]).amount
              <= EstimatedPayout(1000, 20, 90, liquidationThreshold)
    /\ \A i \in 1..Len(events) :
          events[i].name = "Payout" =>
              events[i].amount <= EstimatedPayout(1000, 20, 90, liquidationThreshold)

\* C33: the reentrancy flag is free whenever no call is in flight.  A
\* transfer that comes back, successful or failed, leaves locked false, and
\* between transactions no submitClaim, withdraw or executePayout is refused
\* as a reentrant call.
C33_LockFreeWhenQuiescent ==
    /\ [](~InFlight =>
            /\ ~locked
            /\ \A s \in Address, u \in Address, o \in OrderIds :
                  /\ ExecutePayoutRevert(s, u, o) # "Reentrant call"
                  /\ SubmitClaimRevert(s, o, 1000, 90, 50) # "Reentrant call"
            /\ \A s \in Address, a \in WithdrawAmounts :
                  WithdrawRevert(s, a) # "Reentrant call")
    /\ [][(InFlight /\ ~InFlight') => ~locked']_vars

\* The transfer of a payout to claimant 3 has failed and the transaction was
\* undone: the flag is free and wallet 2 may call executePayout again.
C33_Witness ==
    /\ last = [op |-> "executePayout", status |-> "reverted"]
    /\ ~InFlight /\ ~locked
    /\ ExecutePayoutRevert(2, 3, 1) = OK

\* C34: from construction on, 1 <= minSignatures <= number of wallets on the
\* roster.  updateMinSignatures is refused for a size outside that range, and
\* a step that replaces the roster installs one with at least minSignatures
\* wallets; each of the two leaves the other's variable alone.
C34_QuorumWithinRoster ==
    /\ [](/\ 1 <= minSignatures /\ minSignatures <= getMultiSigWalletCount
          /\ \A s \in Address, m \in MinSignatureValues :
                (m < 1 \/ m > getMultiSigWalletCount)
                    => UpdateMinSignaturesRevert(s, m) # OK)
    /\ [][/\ multiSigWallets' # multiSigWallets =>
                 /\ Len(multiSigWallets') >= minSignatures
                 /\ minSignatures' = minSignatures
          /\ minSignatures' # minSignatures =>
                 /\ minSignatures' \in 1..Len(multiSigWallets)
                 /\ multiSigWallets' = multiSigWallets]_vars

\* The owner has lowered the quorum size to 1 and then cut the roster down to
\* wallet 2 alone: the smallest roster the quorum size allows.
C34_Witness ==
    /\ last = [op |-> "updateMultiSigWallets", status |-> "returned"]
    /\ minSignatures = 1
    /\ multiSigWallets = <<2>>
    /\ UpdateMinSignaturesRevert(owner, 2) = "Invalid min signatures"
    /\ UpdateMinSignaturesRevert(owner, 0) = "Invalid min signatures"

\* C35: there is one owner and it is never the zero address.  Exactly the
\* owner passes onlyOwner; transferOwnership is accepted exactly from the
\* owner with a non-zero new owner; and the owner changes only in an accepted
\* transferOwnership, after which the new owner passes onlyOwner and the
\* previous one does not.
C35_SingleOwner ==
    /\ [](/\ owner # ZeroAddress
          /\ \A s \in Address :
                /\ onlyOwner(s) = OK <=> s = owner
                /\ \A n \in Address :
                      TransferOwnershipRevert(s, n) = OK
                          <=> (s = owner /\ n # ZeroAddress))
    /\ [][owner' # owner =>
          /\ last' = [op |-> "transferOwnership", status |-> "returned"]
          /\ events'[Len(events')] = [name |-> "OwnerChanged", newOwner |-> owner']
          /\ \A s \in {owner} : onlyOwner(s)' # OK
          /\ \A s \in {owner'} : onlyOwner(s)' = OK]_vars

\* The deployer 1 has passed the ownership to 4: 4 is now accepted as owner
\* and 1 is refused, also for handing the ownership back.
C35_Witness ==
    /\ last = [op |-> "transferOwnership", status |-> "returned"]
    /\ owner = 4
    /\ onlyOwner(4) = OK /\ onlyOwner(1) = "Not owner"
    /\ TransferOwnershipRevert(1, 1) = "Not owner"

\* C36: the two revisions agree on settlement.  Revision 1 starts in the
\* state that corresponds to revision 2's; every step of revision 2 (addFunds,
\* addToWhitelist, updateFee, submitClaim, updateVerification, the start of a
\* payout, the return of its transfer) is the step revision 1 makes on the
\* same call, so the two stay in corresponding states; in every such state
\* each call is accepted by both or refused by both, in particular
\* executePayout(user, orderId, recorded amount) of revision 1 and
\* executePayout(user, orderId) of revision 2; and a payout that starts sends
\* and debits the same net amount in both.
C36_RevisionsAgree ==
    /\ [](last.op = "constructor" => Rev1Of = Rev1Init)
    /\ [](~paused =>
            \A s \in RevisionCallers :
                /\ \A k \in Claimed :
                      /\ Rev1ExecutePayoutRevert(Rev1Of, s, k[1], k[2],
                                                 ClaimRecord(k[1], k[2]).amount) = OK
                           <=> ExecutePayoutRevert(s, k[1], k[2]) = OK
                      /\ Rev1UpdateVerificationRevert(Rev1Of, s, k[1], k[2]) = OK
                           <=> UpdateVerificationRevert(s, k[1], k[2]) = OK
                /\ \A o \in OrderIds :
                      Rev1SubmitClaimRevert(Rev1Of, s, o, 1000, 90, 50) = OK
                          <=> SubmitClaimRevert(s, o, 1000, 90, 50) = OK
                /\ \A f \in Fees :
                      Rev1UpdateFeeRevert(Rev1Of, s, f) = OK <=> UpdateFeeRevert(s, f) = OK
                /\ Rev1OnlyOwner(Rev1Of, s) = OK <=> onlyOwner(s) = OK)
    /\ [][storage' # storage =>
          LET st == Rev1Of
              ev == events'[1] IN
          \/ /\ last' = [op |-> "addFunds", status |-> "returned"]
             /\ Rev1Of' = Rev1AddFunds(st, ev.owner, ev.amount)
          \/ /\ last' = [op |-> "addToWhitelist", status |-> "returned"]
             /\ Rev1Of' = Rev1AddToWhitelist(st, owner, ev.user)
          \/ /\ last' = [op |-> "updateFee", status |-> "returned"]
             /\ Rev1Of' = Rev1UpdateFee(st, events'[2].executor, ev.newFee)
          \/ /\ last' = [op |-> "submitClaim", status |-> "returned"]
             /\ Rev1Of' = Rev1SubmitClaim(st, ev.user, ev.orderId, ev.principal,
                                          ev.leverage, ev.insuranceRate)
          \/ /\ last' = [op |-> "updateVerification", status |-> "returned"]
             /\ Rev1Of' = Rev1UpdateVerification(st, events'[2].executor, ev.user,
                                                 ev.orderId, ev.insuranceRate,
                                                 ev.verified)
          \/ /\ last' = [op |-> "executePayout", status |-> "in flight"]
             /\ \E k \in Claimed :
                   /\ k = <<frame'.to, frame'.orderId>>
                   /\ Rev1Of' = Rev1ExecutePayout(st, frame'.sender, k[1], k[2],
                                                  ClaimRecord(k[1], k[2]).amount)
                   /\ frame'.value =
                         Rev1PayoutAmount(st, ClaimRecord(k[1], k[2]).amount)
                   /\ st.contractBalance - Rev1Of'.contractBalance
                         = contractBalance - contractBalance'
          \/ /\ last' = [op |-> "executePayout", status |-> "returned"]
             /\ Rev1Of' = Rev1TransferSucceeds(st)
          \/ /\ last' = [op |-> "executePayout", status |-> "reverted"]
             /\ Rev1Of' = Rev1Image(frame.saved)]_vars

\* Claimant 3 submitted order 2 before order 1, so that the position of a
\* record is not its orderId; order 1 has been verified and paid from a
\* ledger of 30, which both revisions now show as 6, and both refuse to pay
\* order 2, still unverified.
C36_Witness ==
    /\ last = [op |-> "executePayout", status |-> "returned"]
    /\ paid = {<<3, 1>>}
    /\ Len(Records(3)) = 2 /\ Records(3)[1].orderId = 2 /\ Records(3)[2].orderId = 1
    /\ contractBalance = 6 /\ Rev1Of.contractBalance = 6
    /\ ExecutePayoutRevert(1, 3, 2) = "Not verified"
    /\ Rev1ExecutePayoutRevert(Rev1Of, 1, 3, 2, ClaimRecord(3, 2).amount) = "Not verified"

\* C37: once a chainChanged has reported a chain other than Base, the Sign
\* button is disabled when the handler has finished and stays disabled until
\* a chainChanged back to Base or a new connection.
C37_WrongChainDisablesSign ==
    wallet.wrongChain => wallet.signDisabled

\* C38: the Sign button is enabled only if the wallet state is connected with
\* an address.
C38_SignOnlyWhenConnected ==
    ~wallet.signDisabled =>
        (wallet.state.status = "connected" /\ wallet.state.address # NoAddress)

\* C39: for every claimed (u, o) the index stored for o is within u's
\* records and names the one record of u whose orderId is o, so the lookup of
\* updateVerification and executePayout never fails on a claimed order; an
\* accepted updateVerification rewrites that record and no other, and
\* executePayout sends the net of the amount recorded for that order.
C39_IndexConsistent ==
    /\ [](\A u \in Submitters, o \in OrderIds :
            isOrderClaimed(u, o) =>
               /\ IndexOf(u, o) < Len(Records(u))
               /\ RecordAt(u, IndexOf(u, o)).orderId = o
               /\ LookupRevert(u, o) = OK
               /\ \A i \in 1..Len(Records(u)) :
                     Records(u)[i].orderId = o => i = IndexOf(u, o) + 1
               /\ RecordAt(u, IndexOf(u, o)).amount =
                     EstimatedPayout(1000, OrderRate(o), 90, liquidationThreshold))
    /\ [][/\ (last'.op = "updateVerification" /\ userPayouts' # userPayouts) =>
              /\ Len(events') > 0
              /\ \A w \in Submitters :
                    /\ Len(userPayouts'[w].records) = Len(Records(w))
                    /\ userPayouts'[w].orderIdToIndex = userPayouts[w].orderIdToIndex
                    /\ \A i \in 1..Len(Records(w)) :
                          userPayouts'[w].records[i] # Records(w)[i] =>
                             /\ w = events'[1].user
                             /\ Records(w)[i].orderId = events'[1].orderId
                             /\ userPayouts'[w].records[i].orderId = events'[1].orderId
          /\ (~InFlight /\ frame' # NoFrame /\ frame'.op = "executePayout") =>
              /\ isOrderClaimed(frame'.to, frame'.orderId)
              /\ frame'.value =
                    NetPayout(EstimatedPayout(1000, OrderRate(frame'.orderId), 90,
                                              liquidationThreshold),
                              feePercentage)]_vars

C39_Witness ==
    /\ InFlight
    /\ frame.op = "executePayout"
    /\ frame.to = 3
    /\ frame.orderId = 1
    /\ isOrderClaimed(3, 1)
    /\ isOrderClaimed(3, 2)
    /\ isOrderClaimed(4, 2)
    /\ IndexOf(3, 1) = 1
    /\ IndexOf(3, 2) = 0
    /\ ~ClaimRecord(3, 2).verified

====
